---- MODULE Spec2Model ----
(***************************************************************************)
(* gml: lifecycle management of GPU nodes.                                 *)
(*                                                                         *)
(* The model covers the entity store (state.json), the Lambda provider     *)
(* with its readiness poll, the create/delete handlers of the CLI and the  *)
(* timeout daemon (gmld).  A handler is a short sequence of steps, one per *)
(* call it makes (store call, configuration, remote request), so that the  *)
(* order of remote and local effects is visible in the behaviours.         *)
(***************************************************************************)
EXTENDS Integers, Sequences, FiniteSets, TLC

(* ------------------------------------------------------------------ *)
(* Bounds of the model                                                 *)
(* ------------------------------------------------------------------ *)

\* the clock runs from 0 to MaxTime
MaxTime == 1
\* durations a create may ask for: 0..MaxDur
MaxDur == 1
\* instances the provider can launch (ids 1..MaxInstances)
MaxInstances == 2
\* cluster ids 1..MaxClusters
MaxClusters == 1
\* request counters saturate at MaxCount ("MaxCount or more")
MaxCount == 1

(* ------------------------------------------------------------------ *)
(* Program constants                                                   *)
(* ------------------------------------------------------------------ *)

\* get_node_ip: const MAX_RETRIES: u32 = 60
MAX_RETRIES == 60

InstanceIds == 1 .. MaxInstances
ClusterIds == 1 .. MaxClusters
Times == 0 .. MaxTime
Durations == 0 .. MaxDur

\* provider names a command may be given
ProviderNames == {"lambda", "other"}

(* ------------------------------------------------------------------ *)
(* Timestamps and optional timeouts                                    *)
(* ------------------------------------------------------------------ *)

\* A stored time string: well formed RFC 3339 text for instant t, or text
\* that is no timestamp at all.
to_rfc3339(t) == [wf |-> TRUE, t |-> t]
Garbage == [wf |-> FALSE, t |-> 0]

\* DateTime::parse_from_rfc3339: Ok(instant) or Err
parse_from_rfc3339(s) == IF s.wf THEN [ok |-> TRUE, t |-> s.t] ELSE [ok |-> FALSE, t |-> 0]

\* Option<String>
None == [some |-> FALSE, str |-> Garbage]
Some(s) == [some |-> TRUE, str |-> s]

\* parse_timeout_duration with a string that does not parse read as a
\* duration of zero
parse_timeout_duration_lenient(d) == [some |-> TRUE, d |-> IF d >= 0 THEN d ELSE 0]

\* parse_timeout_duration: a duration string either parses (d >= 0) or does
\* not (d = -1 stands for a string humantime rejects)
parse_timeout_duration(d) == IF d >= 0 THEN [some |-> TRUE, d |-> d] ELSE [some |-> FALSE, d |-> 0]

\* timeout_expiration that leaves the duration out
timeout_expiration_now(d, clock) ==
    LET p == parse_timeout_duration(d)
    IN  IF p.some THEN Some(to_rfc3339(clock)) ELSE None

\* handle_create_node: timeout_expiration = parse(..).map(|d| (now + d).to_rfc3339())
timeout_expiration(d, clock) ==
    LET p == parse_timeout_duration(d)
    IN  IF p.some THEN Some(to_rfc3339(clock + p.d)) ELSE None

(* ------------------------------------------------------------------ *)
(* Entity store: state.json                                            *)
(* ------------------------------------------------------------------ *)

\* GmlState::default()
DefaultState == [nodes |-> << >>, clusters |-> << >>]

\* ser_option with an absent value written as an empty string
ser_option_empty(o) == [json |-> "string", s |-> o.str]

\* serde_json of an Option<String>: None is written as null, Some(s) as the
\* string s; null is read back as None
ser_option(o) == IF o.some THEN [json |-> "string", s |-> o.str] ELSE [json |-> "null", s |-> Garbage]
de_option(j) == IF j.json = "null" THEN None ELSE Some(j.s)

\* an entry as a JSON object, and back: the other fields are strings and
\* numbers, written and read as they are
ser_entry(e) == [e EXCEPT !.timeout = ser_option(@)]
de_entry(j) == [j EXCEPT !.timeout = de_option(@)]

\* serde_json::to_string_pretty(self) and serde_json::from_str(&contents):
\* the two arrays, in order
to_string_pretty(st) ==
    [nodes |-> [k \in 1 .. Len(st.nodes) |-> ser_entry(st.nodes[k])],
     clusters |-> [k \in 1 .. Len(st.clusters) |-> ser_entry(st.clusters[k])]]
from_str(doc) ==
    [nodes |-> [k \in 1 .. Len(doc.nodes) |-> de_entry(doc.nodes[k])],
     clusters |-> [k \in 1 .. Len(doc.clusters) |-> de_entry(doc.clusters[k])]]

\* The file: absent, or holding the text of a snapshot, or holding text that
\* is no valid encoding (left by a write that failed part way).
NoFile == [exists |-> FALSE, valid |-> TRUE, nodes |-> << >>, clusters |-> << >>]
FileOf(st) ==
    [exists |-> TRUE, valid |-> TRUE, nodes |-> to_string_pretty(st).nodes,
     clusters |-> to_string_pretty(st).clusters]
Truncated == [exists |-> TRUE, valid |-> FALSE, nodes |-> << >>, clusters |-> << >>]

\* outcomes of the file system calls of one store operation
ReadIO == {"ok", "dir_fail", "read_fail"}
WriteIO == {"ok", "open_fail", "write_fail"}

\* load that takes a missing file for an unreadable one
load_missing_required(f, rio) ==
    IF rio # "ok" \/ ~f.exists \/ ~f.valid THEN [ok |-> FALSE, st |-> DefaultState]
    ELSE [ok |-> TRUE, st |-> from_str([nodes |-> f.nodes, clusters |-> f.clusters])]

\* GmlState::load: the path is resolved and the directory made before the
\* file is looked for ("dir_fail" is either of the two failing)
load(f, rio) ==
    IF rio = "dir_fail" THEN [ok |-> FALSE, st |-> DefaultState]
    ELSE IF ~f.exists THEN [ok |-> TRUE, st |-> DefaultState]
    ELSE IF rio # "ok" \/ ~f.valid THEN [ok |-> FALSE, st |-> DefaultState]
    ELSE [ok |-> TRUE, st |-> from_str([nodes |-> f.nodes, clusters |-> f.clusters])]

\* GmlState::save: fs::write truncates, then writes
save(f, st, wio) ==
    CASE wio = "ok" -> [ok |-> TRUE, file |-> FileOf(st)]
      [] wio = "open_fail" -> [ok |-> FALSE, file |-> f]
      [] OTHER -> [ok |-> FALSE, file |-> Truncated]

\* SeqIds that finds no id
NoIds(s) == {}

RECURSIVE SeqIds(_)
SeqIds(s) == IF s = << >> THEN {} ELSE {Head(s).id} \cup SeqIds(Tail(s))

\* Retain that drops the first entry, whatever its id
RetainTail(s, id) == IF s = << >> THEN s ELSE Tail(s)

RECURSIVE Retain(_, _)
\* Vec::retain(|e| e.id != id)
Retain(s, id) ==
    IF s = << >> THEN << >>
    ELSE IF Head(s).id = id THEN Retain(Tail(s), id)
    ELSE << Head(s) >> \o Retain(Tail(s), id)

RECURSIVE Find(_, _, _)
\* iter().find(|e| e.id == id): the first match, or the default `none`
Find(s, id, none) ==
    IF s = << >> THEN none
    ELSE IF Head(s).id = id THEN Head(s)
    ELSE Find(Tail(s), id, none)

NoNode == [id |-> 0, provider_id |-> 0, ip |-> "", provider |-> "", created_at |-> Garbage,
           instance_type |-> "", user |-> "", timeout |-> None]

NodeEntry(details, provider, instance_type, timeout, user, clock) ==
    [id |-> details.id, provider_id |-> details.id, ip |-> details.ip, provider |-> provider,
     created_at |-> to_rfc3339(clock), instance_type |-> instance_type, user |-> user,
     timeout |-> timeout]

ClusterEntry(id, provider, node_count, timeout, clock) ==
    [id |-> id, provider |-> provider, created_at |-> to_rfc3339(clock),
     node_count |-> node_count, timeout |-> timeout]

\* GmlState::add_node: load, refuse a duplicate id, push, save
add_node(f, entry, rio, wio) ==
    LET l == load(f, rio)
    IN  IF ~l.ok THEN [ok |-> FALSE, file |-> f]
        ELSE IF entry.id \in SeqIds(l.st.nodes) THEN [ok |-> FALSE, file |-> f]
        ELSE save(f, [l.st EXCEPT !.nodes = Append(@, entry)], wio)

\* GmlState::remove_node: load, retain the others, fail if none went, save
remove_node(f, id, rio, wio) ==
    LET l == load(f, rio)
        kept == Retain(l.st.nodes, id)
    IN  IF ~l.ok THEN [ok |-> FALSE, file |-> f]
        ELSE IF Len(kept) = Len(l.st.nodes) THEN [ok |-> FALSE, file |-> f]
        ELSE save(f, [l.st EXCEPT !.nodes = kept], wio)

\* get_node that returns an entry for every id
get_node_any(f, id, rio) ==
    LET l == load(f, rio)
    IN  [ok |-> l.ok, found |-> l.ok, node |-> Find(l.st.nodes, id, NoNode)]

\* GmlState::get_node: Err, Ok(None) or Ok(Some(entry))
get_node(f, id, rio) ==
    LET l == load(f, rio)
    IN  IF ~l.ok THEN [ok |-> FALSE, found |-> FALSE, node |-> NoNode]
        ELSE [ok |-> TRUE, found |-> id \in SeqIds(l.st.nodes), node |-> Find(l.st.nodes, id, NoNode)]

\* GmlState::list_nodes
list_nodes(f, rio) ==
    LET l == load(f, rio)
    IN  [ok |-> l.ok, nodes |-> l.st.nodes]

\* GmlState::add_cluster: load, refuse a duplicate id, push, save
add_cluster(f, entry, rio, wio) ==
    LET l == load(f, rio)
    IN  IF ~l.ok THEN [ok |-> FALSE, file |-> f]
        ELSE IF entry.id \in SeqIds(l.st.clusters) THEN [ok |-> FALSE, file |-> f]
        ELSE save(f, [l.st EXCEPT !.clusters = Append(@, entry)], wio)

\* GmlState::remove_cluster
remove_cluster(f, id, rio, wio) ==
    LET l == load(f, rio)
        kept == Retain(l.st.clusters, id)
    IN  IF ~l.ok THEN [ok |-> FALSE, file |-> f]
        ELSE IF Len(kept) = Len(l.st.clusters) THEN [ok |-> FALSE, file |-> f]
        ELSE save(f, [l.st EXCEPT !.clusters = kept], wio)

\* the nodes of s with the timeout of node id set to timeout
RECURSIVE SetTimeout(_, _, _)
SetTimeout(s, id, timeout) ==
    IF s = << >> THEN << >>
    ELSE << IF Head(s).id = id THEN [Head(s) EXCEPT !.timeout = timeout] ELSE Head(s) >>
            \o SetTimeout(Tail(s), id, timeout)

\* update_node_timeout that also renews created_at
update_node_timeout_renewing(f, id, timeout, rio, wio) ==
    LET l == load(f, rio)
        renewed == [k \in 1 .. Len(l.st.nodes) |->
                        IF l.st.nodes[k].id = id
                        THEN [l.st.nodes[k] EXCEPT !.timeout = timeout,
                                                   !.created_at = IF timeout.some THEN timeout.str ELSE @]
                        ELSE l.st.nodes[k]]
    IN  IF ~l.ok THEN [ok |-> FALSE, file |-> f]
        ELSE IF id \notin SeqIds(l.st.nodes) THEN [ok |-> FALSE, file |-> f]
        ELSE save(f, [l.st EXCEPT !.nodes = renewed], wio)

\* GmlState::update_node_timeout: load, fail if no node has the id, set the
\* timeout of the node, save
update_node_timeout(f, id, timeout, rio, wio) ==
    LET l == load(f, rio)
    IN  IF ~l.ok THEN [ok |-> FALSE, file |-> f]
        ELSE IF id \notin SeqIds(l.st.nodes) THEN [ok |-> FALSE, file |-> f]
        ELSE save(f, [l.st EXCEPT !.nodes = SetTimeout(@, id, timeout)], wio)

(* ------------------------------------------------------------------ *)
(* Configuration and provider handle                                   *)
(* ------------------------------------------------------------------ *)

\* What one read of ~/.gml/config.toml can yield: the file is unreadable, or
\* it holds a block for some of the providers, with some of the lambda
\* credentials set.
FullConfig ==
    [readable |-> TRUE, present |-> [n \in ProviderNames |-> TRUE],
     api_key |-> TRUE, ssh_key |-> TRUE, region |-> TRUE]
Configs ==
    {FullConfig,
     [FullConfig EXCEPT !.readable = FALSE],
     [FullConfig EXCEPT !.present = [n \in ProviderNames |-> FALSE]],
     [FullConfig EXCEPT !.api_key = FALSE],
     [FullConfig EXCEPT !.ssh_key = FALSE],
     [FullConfig EXCEPT !.region = FALSE]}

\* create_provider_handle that does not ask for the region
create_provider_handle_no_region(name, cfg) ==
    IF name = "lambda" THEN cfg.api_key /\ cfg.ssh_key ELSE FALSE

\* providers::create_provider_handle: only "lambda" is implemented, and it
\* needs api-key, ssh-key and region
create_provider_handle(name, cfg) ==
    IF name = "lambda" THEN cfg.api_key /\ cfg.ssh_key /\ cfg.region ELSE FALSE

\* parse_config()?, get_provider(name).ok_or(..)?, create_provider_handle(..)?
resolve_provider(name, cfg) ==
    cfg.readable /\ cfg.present[name] /\ create_provider_handle(name, cfg)

\* Lambda::get_user
get_user == "ubuntu"

(* ------------------------------------------------------------------ *)
(* Lambda provider: requests and the answers they can get              *)
(* ------------------------------------------------------------------ *)

LaunchOutcomes == {"req_fail", "http_error", "bad_body", "no_id", "ok"}
StopOutcomes == {"req_fail", "http_error", "bad_body", "empty_list", "ok"}

\* The answer to a terminate request: its kind and, when the body could be
\* read, data.terminated_instances.  The request names one instance, and
\* the provider lists it when it has terminated it for this request.
NoAnswer == [kind |-> "none", listed |-> << >>, id |-> 0]
StopAnswer(o, i, terminates) ==
    [kind |-> o, listed |-> IF o = "ok" /\ terminates THEN << [id |-> i] >> ELSE << >>, id |-> 0]

\* stop_node that takes an answer with an empty list for a success
stop_node_unlisted(details, ans) ==
    IF ans.kind \in {"req_fail", "http_error", "bad_body"}
    THEN [ok |-> FALSE, id |-> 0, ip |-> ""]
    ELSE [ok |-> TRUE, id |-> details.id, ip |-> details.ip]

\* Lambda::stop_node: Err when the request fails, the status is not a
\* success or the body cannot be read or parsed, and when
\* terminated_instances is empty; else the id of its first element, with
\* the ip that was passed in
stop_node(details, ans) ==
    IF ans.kind \in {"req_fail", "http_error", "bad_body"}
    THEN [ok |-> FALSE, id |-> 0, ip |-> ""]
    ELSE IF ans.listed = << >>
    THEN [ok |-> FALSE, id |-> 0, ip |-> ""]
    ELSE [ok |-> TRUE, id |-> Head(ans.listed).id, ip |-> details.ip]

IPs == {"10.0.0.1", "10.0.0.2"}

\* GET instance-types.  The body of an answer, once parsed: "data" is a
\* map from instance type names to entries or it is something else; the
\* "regions_with_capacity_available" of an entry is absent, or is not an
\* array, or is an array of regions; `price` stands for the rest of the
\* entry.
TypeNames == {"gpu_1x", "gpu_8x"}
RegionLists == {<< >>, << "us-east-1" >>, << "us-east-1", "us-west-1" >>}
RegionFields ==
    {[has |-> FALSE, array |-> FALSE, list |-> << >>], [has |-> TRUE, array |-> FALSE, list |-> << >>]}
    \cup {[has |-> TRUE, array |-> TRUE, list |-> l] : l \in RegionLists}
NoType == [present |-> FALSE, regions |-> [has |-> FALSE, array |-> FALSE, list |-> << >>], price |-> 0]
TypeEntries == {NoType} \cup {[present |-> TRUE, regions |-> r, price |-> c] : r \in RegionFields, c \in 1 .. MaxCount + 1}
NoBody == [data_is_map |-> FALSE, data |-> [n \in TypeNames |-> NoType]]
TypeBodies ==
    {NoBody} \cup {[data_is_map |-> TRUE, data |-> d] : d \in [TypeNames -> TypeEntries]}
TypeOutcomes == {"req_fail", "http_error", "bad_body", "ok"}

\* has_capacity that takes any array, an empty one too
has_capacity_any_array(e) == e.regions.has /\ e.regions.array

\* the closure of data_map.retain: get("regions_with_capacity_available")
\* .and_then(as_array).map_or(false, |a| !a.is_empty())
has_capacity(e) == e.regions.has /\ e.regions.array /\ e.regions.list # << >>

\* Lambda::get_node_types on a body that parsed: the entries of "data"
\* that the closure keeps, when "data" is a map; the body as it is, when
\* it is not
get_node_types(body) ==
    IF body.data_is_map
    THEN [body EXCEPT !.data = [n \in TypeNames |->
                                    IF body.data[n].present /\ has_capacity(body.data[n])
                                    THEN body.data[n] ELSE NoType]]
    ELSE body
Statuses == {"booting", "active"}

NoResp == [kind |-> "none", has_ip |-> FALSE, ip |-> "", status |-> ""]
\* answers to GET instances/<id>
PollResponses ==
    {[kind |-> k, has_ip |-> FALSE, ip |-> "", status |-> ""] : k \in {"req_fail", "http_error", "bad_body"}}
    \cup {[kind |-> "ok", has_ip |-> FALSE, ip |-> "", status |-> s] : s \in Statuses}
    \cup {[kind |-> "ok", has_ip |-> TRUE, ip |-> a, status |-> s] : a \in IPs, s \in Statuses}

\* the answers of a provider that is never seen booting
PromptResponses ==
    {r \in PollResponses : r.kind # "ok" \/ (r.has_ip /\ r.ip = "10.0.0.1" /\ r.status = "active")}

\* is_ready with the test of the status dropped
is_ready_address_only(r) == r.has_ip

\* get_node_ip: if let Some(ip) = &info.data.ip { if info.data.status == "active" {..} }
is_ready(r) == r.has_ip /\ r.status = "active"

\* get_node_ip, RETRY_DELAY_SECS: the seconds slept between two requests
RETRY_DELAY_SECS == 10

\* poll_step with the loop running one attempt past MAX_RETRIES
poll_step_one_more(attempt, r) ==
    CASE r.kind = "req_fail" -> [to |-> "fail", why |-> "request", attempt |-> attempt]
      [] r.kind = "http_error" -> [to |-> "fail", why |-> "api_error", attempt |-> attempt]
      [] r.kind = "bad_body" -> [to |-> "fail", why |-> "parse", attempt |-> attempt]
      [] OTHER ->
            IF r.has_ip /\ r.status = "active" THEN [to |-> "ready", why |-> "", attempt |-> attempt]
            ELSE IF attempt <= MAX_RETRIES THEN [to |-> "poll", why |-> "", attempt |-> attempt + 1]
            ELSE [to |-> "fail", why |-> "timeout", attempt |-> attempt]

\* poll_step with an error status answered like an instance that is not
\* ready yet
poll_step_retry_errors(attempt, r) ==
    CASE r.kind = "req_fail" -> [to |-> "fail", why |-> "request", attempt |-> attempt]
      [] r.kind = "bad_body" -> [to |-> "fail", why |-> "parse", attempt |-> attempt]
      [] OTHER ->
            IF r.kind = "ok" /\ r.has_ip /\ r.status = "active"
            THEN [to |-> "ready", why |-> "", attempt |-> attempt]
            ELSE IF attempt < MAX_RETRIES THEN [to |-> "poll", why |-> "", attempt |-> attempt + 1]
            ELSE [to |-> "fail", why |-> "timeout", attempt |-> attempt]

\* get_node_ip, one iteration of `for attempt in 1..=MAX_RETRIES` on answer r:
\* where the loop goes next
poll_step(attempt, r) ==
    CASE r.kind = "req_fail" -> [to |-> "fail", why |-> "request", attempt |-> attempt]
      [] r.kind = "http_error" -> [to |-> "fail", why |-> "api_error", attempt |-> attempt]
      [] r.kind = "bad_body" -> [to |-> "fail", why |-> "parse", attempt |-> attempt]
      [] OTHER ->
            IF is_ready(r) THEN [to |-> "ready", why |-> "", attempt |-> attempt]
            ELSE IF attempt < MAX_RETRIES THEN [to |-> "poll", why |-> "", attempt |-> attempt + 1]
            ELSE [to |-> "fail", why |-> "timeout", attempt |-> attempt]

(* ------------------------------------------------------------------ *)
(* State                                                               *)
(* ------------------------------------------------------------------ *)

\* file      ~/.gml/state.json
\* remote    the provider's side: each instance id is "none" (never
\*           launched), "running" or "terminated"
\* now       the wall clock
\* proc      the processes that run a gml command: "cli" is the interactive
\*           one, "sub" the `gml node delete` child of the daemon; each with
\*           its position (pc), its locals and a record of the calls it made
\* daemon    gmld: its position, the snapshot it loaded, the entry it is at,
\*           and a record of what it did with each entry of this tick
\* stopCalls terminate requests sent so far, per instance (saturating)
\* hist      the last thing that happened to each instance
VARIABLES file, remote, now, proc, daemon, stopCalls, hist

vars == << file, remote, now, proc, daemon, stopCalls, hist >>

Procs == {"cli", "sub"}

\* a process that runs no command
Idle ==
    [pc |-> "idle", cmd |-> "none", id |-> 0, provider |-> "", dur |-> -1, attempt |-> 0,
     inst |-> 0, ip |-> "", node |-> NoNode, res |-> "none", why |-> "", polls |-> 0,
     resp |-> NoResp, pre |-> NoFile, calls |-> << >>, st |-> DefaultState, t0 |-> 0,
     cfg |-> FullConfig, body |-> NoBody, listing |-> NoBody, stop |-> NoAnswer]

DaemonDown == [pc |-> "down", snap |-> DefaultState, idx |-> 0, at |-> 0, log |-> << >>]

Init ==
    /\ file = NoFile
    /\ remote = [i \in InstanceIds |-> "none"]
    /\ now = 0
    /\ proc = [p \in Procs |-> Idle]
    /\ daemon = DaemonDown
    /\ stopCalls = [i \in InstanceIds |-> 0]
    /\ hist = [i \in InstanceIds |-> "none"]

\* Commands and store calls are run one at a time: the interactive process
\* starts a command while the daemon sleeps, and the daemon starts a tick
\* while no interactive command is running.
CliActive == proc["cli"].pc # "idle"
DaemonActive == daemon.pc \notin {"down", "tick"}

Bump(n) == IF n < MaxCount THEN n + 1 ELSE MaxCount

\* the command of process p ends with an error
Failed(p, why) == [proc EXCEPT ![p].pc = "done", ![p].res = "err", ![p].why = why]

Called(l, what) == [l EXCEPT !.calls = Append(@, what)]

(* ------------------------------------------------------------------ *)
(* handle_create_node                                                  *)
(* ------------------------------------------------------------------ *)

\* gml node create --provider .. --instance-type .. --timeout ..
CreateBegin(provider, dur) ==
    /\ proc["cli"].pc = "idle"
    /\ ~DaemonActive
    /\ proc' = [proc EXCEPT !["cli"] = [Idle EXCEPT !.pc = "c_ensure", !.cmd = "create",
                                           !.provider = provider, !.dur = dur, !.pre = file]]
    /\ UNCHANGED << file, remote, now, daemon, stopCalls, hist >>

\* EnsureDaemon with the result of ensure_daemon_running dropped: the
\* create goes on whether or not gmld runs
EnsureDaemonUnchecked ==
    /\ proc["cli"].pc = "c_ensure"
    /\ \E o \in {"missing", "spawn_fail", "spawned"} :
        /\ proc' = [proc EXCEPT !["cli"].pc = "c_config"]
        /\ IF daemon.pc = "down" /\ o = "spawned"
           THEN daemon' = [daemon EXCEPT !.pc = "tick"]
           ELSE UNCHANGED daemon
    /\ UNCHANGED << file, remote, now, stopCalls, hist >>

\* ensure_daemon_running: nothing to do when a gmld process runs; otherwise
\* spawn it, which fails when the executable is missing or cannot be started
EnsureDaemon ==
    /\ proc["cli"].pc = "c_ensure"
    /\ \E o \in {"missing", "spawn_fail", "spawned"} :
        IF daemon.pc # "down"
        THEN /\ proc' = [proc EXCEPT !["cli"].pc = "c_config"]
             /\ UNCHANGED daemon
        ELSE IF o = "spawned"
        THEN /\ proc' = [proc EXCEPT !["cli"].pc = "c_config"]
             /\ daemon' = [daemon EXCEPT !.pc = "tick"]
        ELSE /\ proc' = Failed("cli", "daemon")
             /\ UNCHANGED daemon
    /\ UNCHANGED << file, remote, now, stopCalls, hist >>

\* parse_config, get_provider, create_provider_handle
CreateConfig ==
    /\ proc["cli"].pc = "c_config"
    /\ \E cfg \in Configs :
        proc' = IF resolve_provider(proc["cli"].provider, cfg)
                THEN [proc EXCEPT !["cli"].pc = "c_launch", !["cli"].cfg = cfg]
                ELSE [Failed("cli", "config") EXCEPT !["cli"].cfg = cfg]
    /\ UNCHANGED << file, remote, now, daemon, stopCalls, hist >>

Unlaunched == {i \in InstanceIds : remote[i] = "none"}
\* the provider assigns the id of a new instance
FreshId == CHOOSE i \in Unlaunched : \A j \in Unlaunched : i <= j

\* after_start with the launch tried again when start_node fails
after_start_retry(start_ok) == IF start_ok THEN "c_add" ELSE "c_launch"

\* after_start with the `?` on start_node's result dropped
after_start_unchecked(start_ok) == "c_add"

\* handle_create_node after start_node: `?` returns on Err, the handler goes
\* on to get_user and add_node on Ok
after_start(start_ok) == IF start_ok THEN "c_add" ELSE "done"

\* poll_gave_up with start_node terminating the instance it gives up on
poll_gave_up_cleanup(i) ==
    [remote |-> [remote EXCEPT ![i] = "terminated"],
     stopCalls |-> [stopCalls EXCEPT ![i] = Bump(@)]]

\* Lambda::start_node, `self.get_node_ip(&instance_id)?`: the error of the
\* poll is returned as it is, instance i is not touched
poll_gave_up(i) == [remote |-> remote, stopCalls |-> stopCalls]

\* Lambda::start_node, the launch request: any answer but a success with an
\* instance id ends start_node with an error.  An answer that cannot be
\* read may come from a provider that did launch an instance.
Launch ==
    /\ proc["cli"].pc = "c_launch"
    /\ \E o \in LaunchOutcomes, launched \in BOOLEAN :
        LET me == Called(proc["cli"], "launch")
            to == after_start(FALSE)
        IN  IF Unlaunched # {} /\ o = "ok" /\ launched
            THEN /\ remote' = [remote EXCEPT ![FreshId] = "running"]
                 /\ hist' = [hist EXCEPT ![FreshId] = "launched"]
                 /\ proc' = [proc EXCEPT !["cli"] =
                                [me EXCEPT !.pc = "c_poll", !.inst = FreshId, !.attempt = 1]]
            ELSE /\ proc' = [proc EXCEPT !["cli"] =
                                [me EXCEPT !.pc = to, !.res = IF to = "done" THEN "err" ELSE @,
                                           !.why = IF to = "done" THEN "launch" ELSE @]]
                 /\ IF Unlaunched # {} /\ o = "bad_body" /\ launched
                    THEN /\ remote' = [remote EXCEPT ![FreshId] = "running"]
                         /\ hist' = [hist EXCEPT ![FreshId] = "start_failed"]
                    ELSE UNCHANGED << remote, hist >>
    /\ UNCHANGED << file, now, daemon, stopCalls >>

\* Lambda::get_node_ip, one status request and what the loop does with the
\* answer, which is one of R
PollOn(R) ==
    /\ proc["cli"].pc = "c_poll"
    /\ \E r \in R :
        LET me == proc["cli"]
            nx == poll_step(me.attempt, r)
            polled == [me EXCEPT !.polls = @ + 1, !.resp = r, !.attempt = nx.attempt]
            to == after_start(nx.to = "ready")
        IN  CASE nx.to = "poll" ->
                    /\ proc' = [proc EXCEPT !["cli"] = polled]
                    /\ UNCHANGED << hist, remote, stopCalls >>
              [] nx.to = "ready" ->
                    /\ proc' = [proc EXCEPT !["cli"] =
                                   Called([polled EXCEPT !.pc = to, !.ip = r.ip], "start_node:ok")]
                    /\ UNCHANGED << hist, remote, stopCalls >>
              [] OTHER ->
                    /\ proc' = [proc EXCEPT !["cli"] =
                                   [polled EXCEPT !.pc = to, !.res = IF to = "done" THEN "err" ELSE @,
                                                  !.why = nx.why]]
                    /\ hist' = [hist EXCEPT ![me.inst] = "start_failed"]
                    /\ remote' = poll_gave_up(me.inst).remote
                    /\ stopCalls' = poll_gave_up(me.inst).stopCalls
    /\ UNCHANGED << file, now, daemon >>

\* the provider may need any number of status requests to get ready
Poll == PollOn(PollResponses)

\* the provider answers the first status request with an error or with a
\* ready instance
PollPrompt == PollOn(PromptResponses)

\* get_user, the timeout's expiry, GmlState::add_node
\* The clock is read twice: by the handler for the expiry (Utc::now() +
\* duration) and then by add_node, after its load, for created_at; `late`
\* is the time that passes between the two reads, and `t0` keeps the first.
AddNode ==
    /\ proc["cli"].pc = "c_add"
    /\ \E rio \in ReadIO, wio \in WriteIO, late \in 0 .. (MaxTime - now) :
        LET me == proc["cli"]
            entry == NodeEntry([id |-> me.inst, ip |-> me.ip], me.provider, "gpu",
                               timeout_expiration(me.dur, now), get_user, now + late)
            r == add_node(file, entry, rio, wio)
        IN  /\ file' = r.file
            /\ now' = now + late
            /\ proc' = [proc EXCEPT !["cli"] =
                            Called([@ EXCEPT !.pc = "done", !.res = IF r.ok THEN "ok" ELSE "err",
                                               !.why = IF r.ok THEN "" ELSE "store_write",
                                               !.t0 = now], "add_node")]
            /\ hist' = [hist EXCEPT ![me.inst] = IF r.ok THEN "added" ELSE "add_failed"]
    /\ UNCHANGED << remote, daemon, stopCalls >>

(* ------------------------------------------------------------------ *)
(* handle_delete_node                                                  *)
(* ------------------------------------------------------------------ *)

\* gml node delete <id>
DeleteBegin(id) ==
    /\ proc["cli"].pc = "idle"
    /\ ~DaemonActive
    /\ proc' = [proc EXCEPT !["cli"] = [Idle EXCEPT !.pc = "d_get", !.cmd = "delete",
                                           !.id = id, !.pre = file]]
    /\ UNCHANGED << file, remote, now, daemon, stopCalls, hist >>

\* gml node delete <id>, typed while gmld is in a tick: nothing keeps the
\* two processes apart
DeleteDuring(id) ==
    /\ proc["cli"].pc = "idle"
    /\ DaemonActive
    /\ proc' = [proc EXCEPT !["cli"] = [Idle EXCEPT !.pc = "d_get", !.cmd = "delete",
                                           !.id = id, !.pre = file]]
    /\ UNCHANGED << file, remote, now, daemon, stopCalls, hist >>

\* GmlState::get_node(&id)?, and the error when it is not there
DeleteGet(p) ==
    /\ proc[p].pc = "d_get"
    /\ \E rio \in ReadIO :
        LET g == get_node(file, proc[p].id, rio)
        IN  proc' = IF ~g.ok THEN Failed(p, "store_read")
                    ELSE IF ~g.found THEN Failed(p, "not_found")
                    ELSE [proc EXCEPT ![p].pc = "d_config", ![p].node = g.node]
    /\ UNCHANGED << file, remote, now, daemon, stopCalls, hist >>

\* parse_config, get_provider(&node.provider), create_provider_handle
DeleteConfig(p) ==
    /\ proc[p].pc = "d_config"
    /\ \E cfg \in Configs :
        proc' = IF resolve_provider(proc[p].node.provider, cfg)
                THEN [proc EXCEPT ![p].pc = "d_stop", ![p].cfg = cfg]
                ELSE [Failed(p, "config") EXCEPT ![p].cfg = cfg]
    /\ UNCHANGED << file, remote, now, daemon, stopCalls, hist >>

\* after_stop with stop_node called again when it fails
after_stop_retry(stop_ok) == IF stop_ok THEN "d_remove" ELSE "d_stop"

\* after_stop with the `?` on stop_node's result dropped
after_stop_unchecked(stop_ok) == "d_remove"

\* handle_delete_node after stop_node: `?` returns on Err, remove_node on Ok
after_stop(stop_ok) == IF stop_ok THEN "d_remove" ELSE "done"

\* DeleteStop with the entry taken out of the store before the provider is
\* asked to stop the node
DeleteStopStoreFirst(p) ==
    /\ proc[p].pc = "d_stop"
    /\ \E o \in StopOutcomes :
        LET me == proc[p]
            i == me.node.provider_id
            ok == o = "ok" /\ remote[i] = "running"
        IN  /\ file' = remove_node(file, me.id, "ok", "ok").file
            /\ stopCalls' = [stopCalls EXCEPT ![i] = Bump(@)]
            /\ remote' = IF ok THEN [remote EXCEPT ![i] = "terminated"] ELSE remote
            /\ hist' = IF ok THEN [hist EXCEPT ![i] = "removed"] ELSE hist
            /\ proc' = [proc EXCEPT ![p] =
                            Called([@ EXCEPT !.pc = "done", !.res = IF ok THEN "ok" ELSE "err",
                                               !.why = IF ok THEN "" ELSE "stop"],
                                   IF ok THEN "stop_node:ok" ELSE "stop_node:err")]
    /\ UNCHANGED << now, daemon >>

\* Lambda::stop_node: the terminate request for node.provider_id; the provider
\* terminates a running instance when it answers with that instance listed.
\* An answer that cannot be read may come from a provider that did
\* terminate the instance.
DeleteStop(p) ==
    /\ proc[p].pc = "d_stop"
    /\ \E o \in StopOutcomes, gone \in BOOLEAN :
        LET me == proc[p]
            i == me.node.provider_id
            ans == StopAnswer(o, i, remote[i] = "running")
            r == stop_node([id |-> i, ip |-> me.node.ip], ans)
            ok == r.ok
            lost == o = "bad_body" /\ gone /\ remote[i] = "running"
            to == after_stop(ok)
        IN  /\ stopCalls' = [stopCalls EXCEPT ![i] = Bump(@)]
            /\ remote' = IF ok \/ lost THEN [remote EXCEPT ![i] = "terminated"] ELSE remote
            /\ hist' = IF ok THEN [hist EXCEPT ![i] = "stopped"]
                       ELSE IF lost THEN [hist EXCEPT ![i] = "stop_failed"]
                       ELSE hist
            /\ proc' = [proc EXCEPT ![p] =
                            Called([@ EXCEPT !.pc = to,
                                               !.res = IF to = "done" THEN "err" ELSE @,
                                               !.why = IF to = "done" THEN "stop" ELSE @,
                                               !.stop = [ans EXCEPT !.id = r.id]],
                                   IF ok THEN "stop_node:ok" ELSE "stop_node:err")]
    /\ UNCHANGED << file, now, daemon >>

\* GmlState::remove_node(&id)?
DeleteRemove(p) ==
    /\ proc[p].pc = "d_remove"
    /\ \E rio \in ReadIO, wio \in WriteIO :
        LET me == proc[p]
            r == remove_node(file, me.id, rio, wio)
        IN  /\ file' = r.file
            /\ proc' = [proc EXCEPT ![p] =
                            Called([@ EXCEPT !.pc = "done", !.res = IF r.ok THEN "ok" ELSE "err",
                                               !.why = IF r.ok THEN "" ELSE "store_remove"], "remove_node")]
            /\ hist' = [hist EXCEPT ![me.node.provider_id] = IF r.ok THEN "removed" ELSE "remove_failed"]
    /\ UNCHANGED << remote, now, daemon, stopCalls >>

\* the interactive command returns: main prints the error, the process exits
Return ==
    /\ proc["cli"].pc = "done"
    /\ proc' = [proc EXCEPT !["cli"] = Idle]
    /\ UNCHANGED << file, remote, now, daemon, stopCalls, hist >>

(* ------------------------------------------------------------------ *)
(* handle_node_timeout_reset, handle_node_timeout_remove               *)
(* ------------------------------------------------------------------ *)

\* The two handlers, each from its call to its return: get_node, for a
\* reset the new expiry from the duration and the clock, and
\* update_node_timeout with it or with None.
TimeoutUpdate(cmd, id, dur) ==
    /\ proc["cli"].pc = "idle"
    /\ ~DaemonActive
    /\ \E rio1 \in ReadIO, rio2 \in ReadIO, wio \in WriteIO :
        LET me == [Idle EXCEPT !.cmd = cmd, !.id = id, !.dur = dur, !.pre = file, !.t0 = now,
                               !.pc = "done"]
            got == get_node(file, id, rio1)
            expiry == IF cmd = "timeout_reset" THEN timeout_expiration(dur, now) ELSE None
            r == update_node_timeout(file, id, expiry, rio2, wio)
            fail(why) == [me EXCEPT !.res = "err", !.why = why]
        IN  IF ~got.ok THEN /\ proc' = [proc EXCEPT !["cli"] = fail("store_read")]
                            /\ UNCHANGED file
            ELSE IF ~got.found THEN /\ proc' = [proc EXCEPT !["cli"] = fail("not_found")]
                                    /\ UNCHANGED file
            ELSE IF cmd = "timeout_reset" /\ ~expiry.some
            THEN /\ proc' = [proc EXCEPT !["cli"] = fail("duration")]
                 /\ UNCHANGED file
            ELSE /\ proc' = [proc EXCEPT !["cli"] =
                                IF r.ok THEN [me EXCEPT !.res = "ok"] ELSE fail("store_write")]
                 /\ file' = r.file
    /\ UNCHANGED << remote, now, daemon, stopCalls, hist >>

\* gml node timeout reset <id> <duration>
TimeoutReset(id, dur) == TimeoutUpdate("timeout_reset", id, dur)

\* gml node timeout remove <id>
TimeoutRemove(id) == TimeoutUpdate("timeout_remove", id, -1)

\* handle_node_timeout_reset (dur >= 0 or unparseable) and
\* handle_node_timeout_remove, run by the user while gmld is in a tick
TimeoutDuring(cmd, id, dur) ==
    /\ proc["cli"].pc = "idle"
    /\ DaemonActive
    /\ \E rio1 \in ReadIO, rio2 \in ReadIO, wio \in WriteIO :
        LET me == [Idle EXCEPT !.cmd = cmd, !.id = id, !.dur = dur, !.pre = file, !.t0 = now,
                               !.pc = "done"]
            got == get_node(file, id, rio1)
            expiry == IF cmd = "timeout_reset" THEN timeout_expiration(dur, now) ELSE None
            r == update_node_timeout(file, id, expiry, rio2, wio)
            fail(why) == [me EXCEPT !.res = "err", !.why = why]
        IN  IF ~got.ok THEN /\ proc' = [proc EXCEPT !["cli"] = fail("store_read")]
                            /\ UNCHANGED file
            ELSE IF ~got.found THEN /\ proc' = [proc EXCEPT !["cli"] = fail("not_found")]
                                    /\ UNCHANGED file
            ELSE IF cmd = "timeout_reset" /\ ~expiry.some
            THEN /\ proc' = [proc EXCEPT !["cli"] = fail("duration")]
                 /\ UNCHANGED file
            ELSE /\ proc' = [proc EXCEPT !["cli"] =
                                IF r.ok THEN [me EXCEPT !.res = "ok"] ELSE fail("store_write")]
                 /\ file' = r.file
    /\ UNCHANGED << remote, now, daemon, stopCalls, hist >>

(* ------------------------------------------------------------------ *)
(* handle_list_node_types                                              *)
(* ------------------------------------------------------------------ *)

\* The handler from its call to its return: the provider is resolved, the
\* catalogue requested and filtered by get_node_types, and the listing
\* printed.
ListNodeTypes(provider) ==
    /\ proc["cli"].pc = "idle"
    /\ ~DaemonActive
    /\ \E cfg \in Configs, o \in TypeOutcomes, body \in TypeBodies :
        LET me == [Idle EXCEPT !.cmd = "node_types", !.provider = provider, !.cfg = cfg,
                               !.pre = file, !.pc = "done"]
        IN  proc' = [proc EXCEPT !["cli"] =
                        IF ~resolve_provider(provider, cfg)
                        THEN [me EXCEPT !.res = "err", !.why = "config"]
                        ELSE IF o # "ok"
                        THEN [me EXCEPT !.res = "err", !.why = "request"]
                        ELSE [me EXCEPT !.res = "ok", !.body = body, !.listing = get_node_types(body)]]
    /\ UNCHANGED << file, remote, now, daemon, stopCalls, hist >>

(* ------------------------------------------------------------------ *)
(* Store calls made from outside the handlers                          *)
(* ------------------------------------------------------------------ *)

\* timeouts add_cluster may be given: it stores the string as it comes
ClusterTimeouts == {None, Some(Garbage)} \cup {Some(to_rfc3339(t)) : t \in Times}

AddCluster(id, timeout) ==
    /\ ~CliActive /\ ~DaemonActive
    /\ \E rio \in ReadIO, wio \in WriteIO :
        file' = add_cluster(file, ClusterEntry(id, "lambda", 1, timeout, now), rio, wio).file
    /\ UNCHANGED << remote, now, proc, daemon, stopCalls, hist >>

RemoveCluster(id) ==
    /\ ~CliActive /\ ~DaemonActive
    /\ \E rio \in ReadIO, wio \in WriteIO :
        file' = remove_cluster(file, id, rio, wio).file
    /\ UNCHANGED << remote, now, proc, daemon, stopCalls, hist >>

(* ------------------------------------------------------------------ *)
(* gmld: the timeout daemon                                            *)
(* ------------------------------------------------------------------ *)

\* timeout_check with a timeout equal to the clock taken as not expired
timeout_check_strict(s, clock) ==
    LET p == parse_from_rfc3339(s)
    IN  IF ~p.ok THEN "parse_err"
        ELSE IF clock <= p.t THEN "not_expired"
        ELSE "expired"

\* timeout_check with a timeout that does not parse taken for one that
\* has passed
timeout_check_lax(s, clock) ==
    LET p == parse_from_rfc3339(s)
    IN  IF p.ok /\ clock < p.t THEN "not_expired" ELSE "expired"

\* handle_node_timeout / handle_cluster_timeout, up to the expiry test
timeout_check(s, clock) ==
    LET p == parse_from_rfc3339(s)
    IN  IF ~p.ok THEN "parse_err"
        ELSE IF clock < p.t THEN "not_expired"
        ELSE "expired"

\* after_entry with the tick given up at the first entry that fails
after_entry_abort(ok, loop) == IF ok THEN loop ELSE "end"

\* main: `if let Err(e) = handle_.._timeout(..) { log the error }`: the loop
\* goes on to the next entry whatever the result
after_entry(ok, loop) == loop

\* what the daemon records about an entry it called handle_.._timeout for
Logged(kind, e, at, outcome) ==
    [kind |-> kind, id |-> e.id, timeout |-> e.timeout, at |-> at, outcome |-> outcome]

OutcomeOk(outcome) == outcome \in {"not_expired", "deleted"}

\* the entry at idx is done with `outcome`
EntryDone(kind, e, at, outcome, loop) ==
    [daemon EXCEPT !.log = Append(@, Logged(kind, e, at, outcome)), !.idx = @ + 1,
                   !.pc = after_entry(OutcomeOk(outcome), loop)]

\* gmld is started by hand
StartDaemon ==
    /\ daemon.pc = "down"
    /\ daemon' = [daemon EXCEPT !.pc = "tick"]
    /\ UNCHANGED << file, remote, now, proc, stopCalls, hist >>

\* DaemonLoad with main returning when the store cannot be loaded
DaemonLoadOrExit ==
    /\ daemon.pc = "tick"
    /\ ~CliActive
    /\ \E rio \in ReadIO :
        LET l == load(file, rio)
        IN  daemon' = IF l.ok
                      THEN [daemon EXCEPT !.pc = "nodes", !.snap = l.st, !.idx = 1, !.log = << >>]
                      ELSE DaemonDown
    /\ UNCHANGED << file, remote, now, proc, stopCalls, hist >>

\* main, top of the loop: GmlState::load()
DaemonLoad ==
    /\ daemon.pc = "tick"
    /\ ~CliActive
    /\ \E rio \in ReadIO :
        LET l == load(file, rio)
        IN  daemon' = IF l.ok
                      THEN [daemon EXCEPT !.pc = "nodes", !.snap = l.st, !.idx = 1, !.log = << >>]
                      ELSE [daemon EXCEPT !.pc = "end"]
    /\ UNCHANGED << file, remote, now, proc, stopCalls, hist >>

\* DaemonNode with the delete command started and not waited for
DaemonNodeNoWait ==
    /\ daemon.pc = "nodes"
    /\ daemon.idx <= Len(daemon.snap.nodes)
    /\ LET e == daemon.snap.nodes[daemon.idx]
           c == timeout_check(e.timeout.str, now)
       IN  IF ~e.timeout.some
           THEN /\ daemon' = [daemon EXCEPT !.idx = @ + 1]
                /\ UNCHANGED proc
           ELSE IF c # "expired"
           THEN /\ daemon' = EntryDone("node", e, now, c, "nodes")
                /\ UNCHANGED proc
           ELSE /\ daemon' = EntryDone("node", e, now, "deleted", "nodes")
                /\ proc' = [proc EXCEPT !["sub"] =
                               [Idle EXCEPT !.pc = "d_get", !.cmd = "delete",
                                            !.id = e.id, !.pre = file]]
    /\ UNCHANGED << file, remote, now, stopCalls, hist >>

\* main, `for node_entry in &state.nodes`, and handle_node_timeout up to the
\* start of `gml node delete <id>`
DaemonNode ==
    /\ daemon.pc = "nodes"
    /\ daemon.idx <= Len(daemon.snap.nodes)
    /\ LET e == daemon.snap.nodes[daemon.idx]
           c == timeout_check(e.timeout.str, now)
       IN  IF ~e.timeout.some
           THEN /\ daemon' = [daemon EXCEPT !.idx = @ + 1]
                /\ UNCHANGED proc
           ELSE IF c # "expired"
           THEN /\ daemon' = EntryDone("node", e, now, c, "nodes")
                /\ UNCHANGED proc
           ELSE \E o \in {"spawn_fail", "run"} :
                    IF o = "spawn_fail"
                    THEN /\ daemon' = EntryDone("node", e, now, "spawn_fail", "nodes")
                         /\ UNCHANGED proc
                    ELSE /\ daemon' = [daemon EXCEPT !.pc = "wait_node", !.at = now]
                         /\ proc' = [proc EXCEPT !["sub"] =
                                        [Idle EXCEPT !.pc = "d_get", !.cmd = "delete",
                                                     !.id = e.id, !.pre = file]]
    /\ UNCHANGED << file, remote, now, stopCalls, hist >>

\* handle_node_timeout: the child has exited, its status decides the result
DaemonReap ==
    /\ daemon.pc = "wait_node"
    /\ proc["sub"].pc = "done"
    /\ daemon' = EntryDone("node", daemon.snap.nodes[daemon.idx], daemon.at,
                           IF proc["sub"].res = "ok" THEN "deleted" ELSE "failed", "nodes")
    /\ proc' = [proc EXCEPT !["sub"] = Idle]
    /\ UNCHANGED << file, remote, now, stopCalls, hist >>

DaemonNodesDone ==
    /\ daemon.pc = "nodes"
    /\ daemon.idx > Len(daemon.snap.nodes)
    /\ daemon' = [daemon EXCEPT !.pc = "clusters", !.idx = 1]
    /\ UNCHANGED << file, remote, now, proc, stopCalls, hist >>

\* main, `for cluster_entry in &state.clusters`, and handle_cluster_timeout:
\* `gml cluster delete <id>` changes nothing in the store
DaemonCluster ==
    /\ daemon.pc = "clusters"
    /\ daemon.idx <= Len(daemon.snap.clusters)
    /\ LET e == daemon.snap.clusters[daemon.idx]
           c == timeout_check(e.timeout.str, now)
       IN  IF ~e.timeout.some
           THEN daemon' = [daemon EXCEPT !.idx = @ + 1]
           ELSE IF c # "expired"
           THEN daemon' = EntryDone("cluster", e, now, c, "clusters")
           ELSE \E o \in {"spawn_fail", "failed", "deleted"} :
                    daemon' = EntryDone("cluster", e, now, o, "clusters")
    /\ UNCHANGED << file, remote, now, proc, stopCalls, hist >>

DaemonClustersDone ==
    /\ daemon.pc = "clusters"
    /\ daemon.idx > Len(daemon.snap.clusters)
    /\ daemon' = [daemon EXCEPT !.pc = "end"]
    /\ UNCHANGED << file, remote, now, proc, stopCalls, hist >>

\* DaemonSleep with main returning after its first pass
DaemonExit ==
    /\ daemon.pc = "end"
    /\ daemon' = DaemonDown
    /\ UNCHANGED << file, remote, now, proc, stopCalls, hist >>

\* main, bottom of the loop: thread::sleep(60 s), then the next tick
DaemonSleep ==
    /\ daemon.pc = "end"
    /\ daemon' = [DaemonDown EXCEPT !.pc = "tick"]
    /\ UNCHANGED << file, remote, now, proc, stopCalls, hist >>

\* time passes
Advance ==
    /\ now < MaxTime
    /\ now' = now + 1
    /\ UNCHANGED << file, remote, proc, daemon, stopCalls, hist >>

(* ------------------------------------------------------------------ *)
(* The store operations, step by step                                  *)
(* ------------------------------------------------------------------ *)

\* A process calls one operation of GmlState.  Each is a load, a change of
\* the loaded value and a save; the save is fs::write, which opens the file
\* with truncation and then writes the text.  Nothing locks the file, so
\* the steps of two processes interleave.
StoreOps == {"add_node", "remove_node", "add_cluster", "remove_cluster", "get_node", "list_nodes"}
NodeOps == {"add_node", "remove_node", "get_node", "list_nodes"}

\* the entry an add is called with (created_at is taken after the load)
NewEntry(op, id, timeout) ==
    IF op = "add_node"
    THEN NodeEntry([id |-> id, ip |-> "10.0.0.1"], "lambda", "gpu", timeout, get_user, 0)
    ELSE IF op = "add_cluster" THEN ClusterEntry(id, "lambda", 1, timeout, 0)
    ELSE NoNode

StoreCall(p, op, id, timeout) ==
    /\ proc[p].pc = "idle"
    /\ proc' = [proc EXCEPT ![p] = [Idle EXCEPT !.pc = "s_load", !.cmd = op, !.id = id,
                                               !.node = NewEntry(op, id, timeout), !.pre = file]]
    /\ UNCHANGED << file, remote, now, daemon, stopCalls, hist >>

\* Self::load()? with the file system answering rio, then the change to the
\* loaded value and the checks that come before the save: process p after
\* them; `pre` keeps the file as this load found it
loaded(p, rio) ==
    LET me == [proc[p] EXCEPT !.pre = file]
        l == load(file, rio)
        entry == [me.node EXCEPT !.created_at = to_rfc3339(now)]
        fail(why) == [me EXCEPT !.pc = "done", !.res = "err", !.why = why]
        goes(st) == [me EXCEPT !.pc = "s_save", !.st = st]
        gives(st, node) == [me EXCEPT !.pc = "done", !.res = "ok", !.st = st, !.node = node]
    IN  IF ~l.ok
        THEN fail(IF rio = "dir_fail" THEN "dir" ELSE IF rio = "read_fail" THEN "read" ELSE "parse")
        ELSE CASE me.cmd = "add_node" ->
                    IF entry.id \in SeqIds(l.st.nodes) THEN fail("duplicate")
                    ELSE goes([l.st EXCEPT !.nodes = Append(@, entry)])
               [] me.cmd = "add_cluster" ->
                    IF entry.id \in SeqIds(l.st.clusters) THEN fail("duplicate")
                    ELSE goes([l.st EXCEPT !.clusters = Append(@, entry)])
               [] me.cmd = "remove_node" ->
                    IF Len(Retain(l.st.nodes, me.id)) = Len(l.st.nodes) THEN fail("not_found")
                    ELSE goes([l.st EXCEPT !.nodes = Retain(@, me.id)])
               [] me.cmd = "remove_cluster" ->
                    IF Len(Retain(l.st.clusters, me.id)) = Len(l.st.clusters) THEN fail("not_found")
                    ELSE goes([l.st EXCEPT !.clusters = Retain(@, me.id)])
               [] me.cmd = "get_node" -> gives(l.st, Find(l.st.nodes, me.id, NoNode))
               [] OTHER -> gives(l.st, NoNode)

\* StoreLoad with a lock taken for the whole operation: the load waits
\* while another process is between its load and the end of its save
StoreLoadLocked(p) ==
    /\ proc[p].pc = "s_load"
    /\ \A q \in Procs \ {p} : proc[q].pc \notin {"s_save", "s_write"}
    /\ \E rio \in ReadIO : proc' = [proc EXCEPT ![p] = loaded(p, rio)]
    /\ UNCHANGED << file, remote, now, daemon, stopCalls, hist >>

\* the load of an operation and what comes before its save
StoreLoad(p) ==
    /\ proc[p].pc = "s_load"
    /\ \E rio \in ReadIO : proc' = [proc EXCEPT ![p] = loaded(p, rio)]
    /\ UNCHANGED << file, remote, now, daemon, stopCalls, hist >>

\* save, up to the point where fs::write has opened the file: the directory
\* or the text cannot be made, or the file cannot be opened, and the file
\* is as it was; or the file is open and empty
SaveOpen(p) ==
    /\ proc[p].pc = "s_save"
    /\ \E wio \in {"ok", "open_fail"} :
        IF wio = "ok"
        THEN /\ file' = Truncated
             /\ proc' = [proc EXCEPT ![p].pc = "s_write"]
        ELSE /\ UNCHANGED file
             /\ proc' = [proc EXCEPT ![p].pc = "done", ![p].res = "err", ![p].why = "save"]
    /\ UNCHANGED << remote, now, daemon, stopCalls, hist >>

\* save, the write of the text.  When another process has written since
\* this one opened the file, a shorter text leaves the end of the other
\* one behind it, and the file is no valid encoding.
SaveWrite(p) ==
    /\ proc[p].pc = "s_write"
    /\ \E wio \in {"ok", "write_fail"}, shorter \in BOOLEAN :
        IF wio = "ok"
        THEN /\ file' = IF file # Truncated /\ shorter THEN Truncated ELSE FileOf(proc[p].st)
             /\ proc' = [proc EXCEPT ![p].pc = "done", ![p].res = "ok"]
        ELSE /\ file' = Truncated
             /\ proc' = [proc EXCEPT ![p].pc = "done", ![p].res = "err", ![p].why = "save"]
    /\ UNCHANGED << remote, now, daemon, stopCalls, hist >>

\* the operation returns to its caller
StoreReturn(p) ==
    /\ proc[p].pc = "done"
    /\ proc[p].cmd \in StoreOps
    /\ proc' = [proc EXCEPT ![p] = Idle]
    /\ UNCHANGED << file, remote, now, daemon, stopCalls, hist >>

\* the operations of process p, with every id and timeout
StoreSteps(p) ==
    \/ \E op \in NodeOps, id \in InstanceIds, t \in ClusterTimeouts : StoreCall(p, op, id, t)
    \/ \E op \in StoreOps \ NodeOps, id \in ClusterIds, t \in ClusterTimeouts : StoreCall(p, op, id, t)
    \/ StoreLoad(p)
    \/ SaveOpen(p)
    \/ SaveWrite(p)
    \/ StoreReturn(p)

(* ------------------------------------------------------------------ *)
(* Specification                                                       *)
(* ------------------------------------------------------------------ *)

\* the steps of the interactive gml command
CliNext ==
    \/ \E pr \in ProviderNames, d \in {-1} \cup Durations : CreateBegin(pr, d)
    \/ EnsureDaemon
    \/ CreateConfig
    \/ Launch
    \/ AddNode
    \/ \E id \in InstanceIds : DeleteBegin(id)
    \/ DeleteGet("cli")
    \/ DeleteConfig("cli")
    \/ DeleteStop("cli")
    \/ DeleteRemove("cli")
    \/ Return

\* the steps of gmld and of the delete command it runs
DaemonNext ==
    \/ StartDaemon
    \/ DaemonLoad
    \/ DaemonNode
    \/ DeleteGet("sub")
    \/ DeleteConfig("sub")
    \/ DeleteStop("sub")
    \/ DeleteRemove("sub")
    \/ DaemonReap
    \/ DaemonNodesDone
    \/ DaemonCluster
    \/ DaemonClustersDone
    \/ DaemonSleep

StoreNext ==
    \/ \E id \in ClusterIds, t \in ClusterTimeouts : AddCluster(id, t)
    \/ \E id \in ClusterIds : RemoveCluster(id)

\* The whole system, with a provider that is never seen booting.
Next ==
    \/ CliNext
    \/ PollPrompt
    \/ DaemonNext
    \/ StoreNext
    \/ Advance

Spec == Init /\ [][Next]_vars

\* The interactive command alone, with a provider that may need any number
\* of status requests.
NextPoll ==
    \/ CliNext
    \/ Poll
    \/ Advance

SpecPoll == Init /\ [][NextPoll]_vars

\* One process calling the store operations, one after the other.
NextStore ==
    \/ StoreSteps("cli")
    \/ Advance

SpecStore == Init /\ [][NextStore]_vars

\* Two processes calling the store operations on nodes at the same time.
NextStoreRace ==
    \E p \in Procs :
        \/ \E op \in NodeOps, id \in InstanceIds : StoreCall(p, op, id, None)
        \/ StoreLoad(p)
        \/ SaveOpen(p)
        \/ SaveWrite(p)
        \/ StoreReturn(p)

SpecStoreRace == Init /\ [][NextStoreRace]_vars

\* the steps of a create
CreateSteps ==
    \/ EnsureDaemon
    \/ CreateConfig
    \/ Launch
    \/ PollPrompt
    \/ AddNode
    \/ Return

\* Nodes with a timeout, gmld deleting them, and interactive deletes typed
\* at any time, in a tick or between two.
NextRace ==
    \/ \E d \in Durations : CreateBegin("lambda", d)
    \/ CreateSteps
    \/ \E id \in InstanceIds : DeleteBegin(id) \/ DeleteDuring(id)
    \/ DeleteGet("cli")
    \/ DeleteConfig("cli")
    \/ DeleteStop("cli")
    \/ DeleteRemove("cli")
    \/ DaemonLoad
    \/ DaemonNode
    \/ DeleteGet("sub")
    \/ DeleteConfig("sub")
    \/ DeleteStop("sub")
    \/ DeleteRemove("sub")
    \/ DaemonReap
    \/ DaemonNodesDone
    \/ DaemonClustersDone
    \/ DaemonSleep
    \/ Advance

SpecRace == Init /\ [][NextRace]_vars

\* the steps of gmld over the nodes, and of the delete command it runs, on
\* a machine where the delete command reads the state file and the
\* configuration without a failure: a delete fails to start, or fails at
\* stop_node or at the store removal
TickSteps ==
    \/ DaemonLoad
    \/ DaemonNode
    \/ DeleteGet("sub") /\ proc'["sub"].why # "store_read"
    \/ DeleteConfig("sub") /\ proc'["sub"].pc = "d_stop"
    \/ DeleteStop("sub")
    \/ DeleteRemove("sub")
    \/ DaemonReap
    \/ DaemonNodesDone
    \/ DaemonClustersDone
    \/ DaemonSleep

\* Nodes created with a timeout or without, their timeouts reset and
\* removed, interactive deletes, and gmld deleting the expired ones.
NextTimeout ==
    \/ \E d \in {-1} \cup Durations : CreateBegin("lambda", d)
    \/ CreateSteps
    \/ \E id \in InstanceIds, d \in {-1} \cup Durations : TimeoutReset(id, d)
    \/ \E id \in InstanceIds : TimeoutRemove(id)
    \/ \E id \in InstanceIds : DeleteBegin(id)
    \/ DeleteGet("cli")
    \/ DeleteConfig("cli")
    \/ DeleteStop("cli")
    \/ DeleteRemove("cli")
    \/ TickSteps
    \/ Advance

SpecTimeout == Init /\ [][NextTimeout]_vars

\* the nodes of the snapshot that gmld has not looked at yet
PendingNodes == {daemon.snap.nodes[k].id : k \in daemon.idx .. Len(daemon.snap.nodes)}

\* Nodes created with a timeout, gmld deleting the expired ones, and a
\* timeout reset or remove that completes after gmld loaded its snapshot
\* and before it looks at the node.
NextReset ==
    \/ \E d \in Durations : CreateBegin("lambda", d)
    \/ CreateSteps
    \/ TickSteps
    \/ Advance
    \/ /\ daemon.pc = "nodes"
       /\ \E id \in PendingNodes :
            TimeoutDuring("timeout_reset", id, MaxDur) /\ proc'["cli"].res = "ok"
    \/ /\ daemon.pc = "nodes"
       /\ \E id \in PendingNodes :
            TimeoutDuring("timeout_remove", id, -1) /\ proc'["cli"].res = "ok"

SpecReset == Init /\ [][NextReset]_vars

\* gmld with all it can meet in a tick: nodes and clusters with timeouts of
\* every kind, a store that cannot be read, deletes that fail at any step.
NextLoop ==
    \/ \E d \in {-1} \cup Durations : CreateBegin("lambda", d)
    \/ CreateSteps
    \/ DaemonNext
    \/ StoreNext
    \/ Advance

\* gmld is a process of its own and waits for the delete command it runs:
\* whenever it, or that command, can take a step, one is taken.
FairLoop == WF_vars(DaemonNext)

SpecLoop == Init /\ [][NextLoop]_vars /\ FairLoop

\* gml node types, against every catalogue the provider may answer with.
NextTypes ==
    \/ \E pr \in ProviderNames : ListNodeTypes(pr)
    \/ Return
    \/ Advance

SpecTypes == Init /\ [][NextTypes]_vars

\* Nodes are created with a timeout or without and only gmld deletes them.
NextRetry ==
    \/ \E d \in {-1} \cup Durations : CreateBegin("lambda", d)
    \/ CreateSteps
    \/ TickSteps
    \/ Advance

\* steps of the delete of node i by gmld that go through without a failure
DeleteStarts(i) == DaemonNode /\ daemon'.pc = "wait_node" /\ proc'["sub"].id = i
StopAccepted(i) == proc["sub"].id = i /\ DeleteStop("sub") /\ proc'["sub"].pc = "d_remove"
RemovalSucceeds(i) == proc["sub"].id = i /\ DeleteRemove("sub") /\ proc'["sub"].res = "ok"

\* gmld and every command run on: a process that can take a step takes one
\* (the loop of main, a handler running to its end).  Ticks come while no
\* command runs.  The read of the state file by gmld and, for each node,
\* the start of the delete command, stop_node and the store removal are
\* tried again and again and do not fail for ever.
FairRetry ==
    /\ WF_vars(CreateSteps)
    /\ WF_vars(TickSteps)
    /\ SF_vars(DaemonLoad /\ daemon'.pc = "nodes")
    /\ \A i \in InstanceIds :
            /\ SF_vars(DeleteStarts(i))
            /\ SF_vars(StopAccepted(i))
            /\ SF_vars(RemovalSucceeds(i))

SpecRetry == Init /\ [][NextRetry]_vars /\ FairRetry

(* ------------------------------------------------------------------ *)
(* Properties                                                          *)
(* ------------------------------------------------------------------ *)

StoreIds == SeqIds(file.nodes)

\* the snapshot the file holds (what a load that succeeds returns)
Persisted == from_str([nodes |-> file.nodes, clusters |-> file.clusters])

Made(l, what) == \E k \in 1 .. Len(l.calls) : l.calls[k] = what

\* C1: in every execution of handle_delete_node, by the interactive command
\* or by the daemon's child, remove_node is called only right after a
\* stop_node that returned Ok: a delete that has changed the store, or is
\* about to call remove_node, has had its stop_node succeed, and the
\* instance is terminated at the provider.
C1_RemoveOnlyAfterStop ==
    \A p \in Procs :
        LET me == proc[p]
        IN  me.cmd = "delete" =>
                /\ \A k \in 1 .. Len(me.calls) :
                        me.calls[k] = "remove_node" => k > 1 /\ me.calls[k - 1] = "stop_node:ok"
                /\ (me.pc = "d_remove" \/ file # me.pre) =>
                        /\ Made(me, "stop_node:ok")
                        /\ remote[me.node.provider_id] = "terminated"

\* a delete has stopped the node and then taken it out of the store
C1_Witness ==
    \E p \in Procs :
        /\ proc[p].cmd = "delete" /\ proc[p].pc = "done" /\ proc[p].res = "ok"
        /\ proc[p].id \in SeqIds(proc[p].pre.nodes)
        /\ proc[p].id \notin StoreIds
        /\ proc[p].calls = << "stop_node:ok", "remove_node" >>

\* the ways start_node fails: the launch request, a status request that
\* fails, and the readiness timeout
StartFailures == {"launch", "request", "api_error", "parse", "timeout"}

\* C2: in every execution of handle_create_node, add_node is called only
\* right after a start_node that returned Ok, and a create whose start_node
\* failed ends with the store as it was when the create began.
C2_AddOnlyAfterStart ==
    LET me == proc["cli"]
    IN  me.cmd = "create" =>
            /\ \A k \in 1 .. Len(me.calls) :
                    me.calls[k] = "add_node" => k > 1 /\ me.calls[k - 1] = "start_node:ok"
            /\ me.pc = "c_add" => Made(me, "start_node:ok")
            /\ (me.pc = "done" /\ me.why \in StartFailures) => file = me.pre /\ ~Made(me, "add_node")

\* a create has timed out with a node already in the store, and the store
\* is as it was
C2_Witness ==
    LET me == proc["cli"]
    IN  /\ me.cmd = "create" /\ me.pc = "done" /\ me.why = "timeout"
        /\ Len(file.nodes) = 1
        /\ file = me.pre

\* C3: an interactive create or delete that ends with an error leaves the
\* store file as it was when the command began, unless the error is that of
\* the store write itself (add_node after start_node, remove_node after
\* stop_node).
C3_FailureLeavesStore ==
    LET me == proc["cli"]
    IN  (me.pc = "done" /\ me.res = "err" /\ me.why \notin {"store_write", "store_remove"})
            => file = me.pre

\* a delete has failed at stop_node and the node is still in the store
C3_Witness ==
    LET me == proc["cli"]
    IN  /\ me.cmd = "delete" /\ me.pc = "done" /\ me.res = "err" /\ me.why = "stop"
        /\ me.id \in StoreIds
        /\ file = me.pre

\* no command is running and no store read or write has failed so far
Settled ==
    /\ \A p \in Procs : proc[p].pc \in {"idle", "done"}
    /\ file.valid
    /\ \A i \in InstanceIds : hist[i] \notin {"add_failed", "remove_failed"}

\* C4 as stated: after completed creates and deletes with the store writes
\* succeeding, an id is in the store if and only if its instance has been
\* launched and not terminated.
C4_StoreIffRunning ==
    Settled => \A i \in InstanceIds : (i \in StoreIds <=> remote[i] = "running")

\* C4: after completed creates and deletes with the store writes succeeding,
\* every id in the store is that of an instance that was launched; the
\* instance is terminated only if a delete of it failed inside stop_node
\* (terminate answer unreadable); and a launched instance that is not
\* terminated is missing from the store only if the create that launched it
\* failed inside start_node (launch answer unreadable, status request
\* failed, or readiness timeout).
C4_StoreTracksRunning ==
    Settled => \A i \in InstanceIds :
                    /\ i \in StoreIds =>
                            \/ remote[i] = "running"
                            \/ remote[i] = "terminated" /\ hist[i] = "stop_failed"
                    /\ (remote[i] = "running" /\ i \notin StoreIds) => hist[i] = "start_failed"
                    /\ remote[i] = "terminated" => hist[i] \in {"stop_failed", "removed"}

\* after commands that all completed, one instance is running and stored,
\* another is running and not stored
C4_Witness ==
    /\ Settled
    /\ proc["cli"].pc = "idle"
    /\ \E i, j \in InstanceIds :
            /\ i \in StoreIds /\ remote[i] = "running"
            /\ j \notin StoreIds /\ remote[j] = "running" /\ hist[j] = "start_failed"

\* the last status answer was a success that is not ready
NotReadyAnswer(l) == l.resp.kind = "ok" /\ ~(l.resp.has_ip /\ l.resp.status = "active")

\* C5: the readiness poll is bounded: no more than MAX_RETRIES status
\* requests are ever made for one create, the timeout error comes only
\* with the MAX_RETRIES-th request, and when that request is answered
\* "not ready" the create ends there with the timeout error.
C5_PollBounded ==
    LET me == proc["cli"]
    IN  /\ me.polls <= MAX_RETRIES
        /\ me.pc = "c_poll" => me.polls < MAX_RETRIES /\ me.attempt = me.polls + 1
        /\ me.why = "timeout" => me.polls = MAX_RETRIES /\ me.pc = "done" /\ me.res = "err"
        /\ (me.polls = MAX_RETRIES /\ NotReadyAnswer(me)) => me.pc = "done" /\ me.why = "timeout"

\* a create has timed out on its MAX_RETRIES-th status request
C5_Witness ==
    LET me == proc["cli"]
    IN  /\ me.cmd = "create" /\ me.pc = "done" /\ me.why = "timeout"
        /\ me.polls = MAX_RETRIES /\ NotReadyAnswer(me)

\* C6: start_node returns Ok only on a status answer that carries both an
\* address and the status "active"; the address it returns, and the one the
\* create stores, is the address of that answer.  An answer with an address
\* and another status, or "active" without an address, never gives Ok.
C6_ReadyNeedsBoth ==
    LET me == proc["cli"]
    IN  me.cmd = "create" =>
            /\ Made(me, "start_node:ok") =>
                    /\ me.resp.kind = "ok" /\ me.resp.has_ip /\ me.resp.status = "active"
                    /\ me.ip = me.resp.ip
            /\ NotReadyAnswer(me) => ~Made(me, "start_node:ok") /\ me.pc \in {"c_poll", "done"}
            /\ (me.pc = "done" /\ me.res = "ok") =>
                    Find(file.nodes, me.inst, NoNode).ip = me.resp.ip

\* start_node has returned Ok on a later status request, with the address
\* of that answer
C6_Witness ==
    LET me == proc["cli"]
    IN  /\ me.cmd = "create" /\ me.pc = "c_add" /\ me.polls >= 2
        /\ me.resp.status = "active" /\ me.resp.ip = "10.0.0.2" /\ me.ip = "10.0.0.2"

\* C7: a status request answered with an error status ends the poll there,
\* whichever request it is: the create is over with the API error, without
\* start_node returning Ok and with the store as it was.  A success answer
\* that is not ready is followed by another request while attempts remain.
C7_ErrorStatusAborts ==
    LET me == proc["cli"]
    IN  /\ me.resp.kind = "http_error" =>
                /\ me.pc = "done" /\ me.res = "err" /\ me.why = "api_error"
                /\ ~Made(me, "start_node:ok") /\ file = me.pre
        /\ (NotReadyAnswer(me) /\ me.polls < MAX_RETRIES) =>
                me.pc = "c_poll" /\ me.attempt = me.polls + 1

\* the last of the MAX_RETRIES status requests was answered with an error
\* status
C7_Witness ==
    LET me == proc["cli"]
    IN  /\ me.resp.kind = "http_error" /\ me.polls = MAX_RETRIES
        /\ me.pc = "done" /\ me.why = "api_error"

\* C8: when the readiness poll ends in the timeout error, no terminate
\* request has been sent for the launched instance, which is still running,
\* and the create has not called add_node: the instance is not in the store
\* and the store is as it was.
C8_TimeoutLeavesInstance ==
    LET me == proc["cli"]
    IN  me.why = "timeout" =>
            /\ stopCalls[me.inst] = 0
            /\ remote[me.inst] = "running"
            /\ me.calls = << "launch" >>
            /\ me.inst \notin StoreIds
            /\ file = me.pre

\* a create has timed out while another node is in the store: its instance
\* runs and is not in the store
C8_Witness ==
    LET me == proc["cli"]
    IN  /\ me.pc = "done" /\ me.why = "timeout"
        /\ remote[me.inst] = "running"
        /\ StoreIds # {} /\ me.inst \notin StoreIds

\* outcomes of an entry the daemon ran (or tried to run) the delete command for
Deletions == {"spawn_fail", "failed", "deleted"}

\* the timeout string s is a timestamp at or before the time `at`
ExpiredAt(s, at) == s.wf /\ s.t <= at

\* C9: in a tick the daemon runs the delete command for exactly the entries
\* of the snapshot whose timeout is present and at or before the time it
\* looks at them (equal counts as expired).  An entry without a timeout is
\* not looked at, one whose timeout is later is left alone: when the tick
\* is over both are in the store as they were in the snapshot.
C9_TickDeletesExpired ==
    /\ \A k \in 1 .. Len(daemon.log) :
            LET l == daemon.log[k]
            IN  /\ l.timeout.some
                /\ l.outcome \in Deletions <=> ExpiredAt(l.timeout.str, l.at)
                /\ l.outcome = "not_expired" <=> (l.timeout.str.wf /\ l.at < l.timeout.str.t)
    /\ daemon.pc = "wait_node" =>
            LET e == daemon.snap.nodes[daemon.idx]
            IN  /\ e.timeout.some /\ ExpiredAt(e.timeout.str, daemon.at)
                /\ proc["sub"].cmd = "delete" /\ proc["sub"].id = e.id
    /\ proc["sub"].pc # "idle" => daemon.pc = "wait_node"
    /\ (daemon.pc = "end" /\ file.valid) =>
            \A k \in 1 .. Len(daemon.snap.nodes) :
                LET e == daemon.snap.nodes[k]
                IN  (~e.timeout.some \/ ~ExpiredAt(e.timeout.str, now)) =>
                        Find(Persisted.nodes, e.id, NoNode) = e

\* a tick is over whose snapshot held a node with its timeout equal to the
\* time of the look, now deleted, and a node without a timeout, which is
\* all the store holds
C9_Witness ==
    /\ daemon.pc = "end"
    /\ Len(daemon.snap.nodes) = 2
    /\ ~daemon.snap.nodes[2].timeout.some
    /\ Len(daemon.log) = 1
    /\ daemon.log[1].kind = "node" /\ daemon.log[1].outcome = "deleted"
    /\ daemon.log[1].timeout.str.t = daemon.log[1].at
    /\ file.valid /\ Persisted.nodes = << daemon.snap.nodes[2] >>

\* the entries among the first n of s that have a timeout, in order
RECURSIVE WithTimeout(_, _, _)
WithTimeout(kind, s, n) ==
    IF n = 0 THEN << >>
    ELSE LET rest == WithTimeout(kind, s, n - 1)
         IN  IF s[n].timeout.some THEN Append(rest, [kind |-> kind, id |-> s[n].id]) ELSE rest

\* the entries the daemon has called handle_.._timeout for in this tick
Handled == [k \in 1 .. Len(daemon.log) |-> [kind |-> daemon.log[k].kind, id |-> daemon.log[k].id]]

AllNodes == WithTimeout("node", daemon.snap.nodes, Len(daemon.snap.nodes))

\* C10: a failure with one entry (the delete command does not start, it
\* exits with an error, or the timeout is not a timestamp) does not end the
\* tick: at every point of the tick the daemon has handled every entry with
\* a timeout that comes before its position, so when the tick is over it has
\* handled every node and every cluster of the snapshot that has a timeout;
\* and from the end of a tick the daemon goes to sleep and on to the next.
C10_FailureDoesNotAbortTick ==
    /\ daemon.pc \in {"nodes", "wait_node"} =>
            Handled = WithTimeout("node", daemon.snap.nodes, daemon.idx - 1)
    /\ daemon.pc = "clusters" =>
            Handled = AllNodes \o WithTimeout("cluster", daemon.snap.clusters, daemon.idx - 1)
    /\ daemon.pc = "end" =>
            /\ Handled = AllNodes \o WithTimeout("cluster", daemon.snap.clusters,
                                                 Len(daemon.snap.clusters))
            /\ ENABLED DaemonSleep
    /\ Len(daemon.log) > 0 => daemon.pc # "down"

\* a tick is over in which the delete of a node failed and an entry after
\* it was handled
C10_Witness ==
    /\ daemon.pc = "end"
    /\ \E k \in 1 .. Len(daemon.log) :
            /\ k < Len(daemon.log)
            /\ daemon.log[k].kind = "node"
            /\ daemon.log[k].outcome \in {"spawn_fail", "failed"}

\* node i is in the store with a timeout that has passed
ExpiredStored(i) ==
    /\ file.valid
    /\ i \in StoreIds
    /\ LET e == Find(Persisted.nodes, i, NoNode)
       IN  e.timeout.some /\ ExpiredAt(e.timeout.str, now)

\* the provider no longer accepts stop_node for the instance of node i
\* (it is terminated already), or the store removal has failed
OutOfReach(i) == ~file.valid \/ hist[i] \in {"stop_failed", "remove_failed"}

\* C11: when a tick is over in which the delete of an expired node failed,
\* the node is in the store as it was, timeout included, as long as the
\* store file can be read; and a node in the store whose timeout has passed
\* is in the end taken out of the store by the ticks that follow, unless
\* the provider no longer accepts stop_node for it or the store removal
\* fails.
C11_ExpiredNodeRetried ==
    /\ [](\A k \in 1 .. Len(daemon.log) :
            LET l == daemon.log[k]
            IN  (daemon.pc = "end" /\ file.valid /\ l.kind = "node"
                    /\ l.outcome \in {"spawn_fail", "failed"}) =>
                        /\ ExpiredStored(l.id)
                        /\ Find(Persisted.nodes, l.id, NoNode) = Find(daemon.snap.nodes, l.id, NoNode))
    /\ \A i \in InstanceIds : ExpiredStored(i) ~> (i \notin StoreIds \/ OutOfReach(i))

\* gmld runs the delete of an expired node again, after a stop_node for it
\* that the provider did not accept
C11_Witness ==
    /\ daemon.pc = "wait_node"
    /\ proc["sub"].pc = "d_stop"
    /\ ExpiredStored(proc["sub"].id)
    /\ stopCalls[proc["sub"].id] = 1
    /\ remote[proc["sub"].id] = "running"

\* how many of the calls in l are stop_node calls
StopsMade(l) == Cardinality({k \in 1 .. Len(l.calls) : l.calls[k] \in {"stop_node:ok", "stop_node:err"}})

\* C12: in a tick, with no other process acting, the delete gmld runs for a
\* node whose timeout has passed calls stop_node once and no more; when the
\* provider accepts it the delete goes on to the store removal, and when
\* that succeeds the node is absent from list_nodes() for the rest of the
\* tick.  No node is handled twice in a tick.
C12_TickDeletesOnce ==
    /\ daemon.pc = "wait_node" =>
            LET me == proc["sub"]
            IN  /\ StopsMade(me) <= 1
                /\ ExpiredAt(daemon.snap.nodes[daemon.idx].timeout.str, daemon.at)
                /\ (me.pc = "done" /\ Made(me, "stop_node:ok")) =>
                        me.calls = << "stop_node:ok", "remove_node" >>
                /\ (me.pc = "done" /\ me.res = "ok") =>
                        /\ me.calls = << "stop_node:ok", "remove_node" >>
                        /\ remote[me.node.provider_id] = "terminated"
                        /\ me.id \notin SeqIds(list_nodes(file, "ok").nodes)
    /\ \A k \in 1 .. Len(daemon.log) :
            /\ (daemon.log[k].kind = "node" /\ daemon.log[k].outcome = "deleted") =>
                    daemon.log[k].id \notin SeqIds(list_nodes(file, "ok").nodes)
            /\ \A j \in 1 .. Len(daemon.log) : j # k => Handled[j] # Handled[k]

\* a tick is over that found a node with its timeout in the past: the node
\* is not listed, its instance is terminated, and another node is listed
C12_Witness ==
    /\ daemon.pc = "end"
    /\ file.valid
    /\ \E k \in 1 .. Len(daemon.log) :
            LET l == daemon.log[k]
            IN  /\ l.kind = "node" /\ l.outcome = "deleted"
                /\ l.timeout.str.t < l.at
                /\ remote[l.id] = "terminated" /\ stopCalls[l.id] = 1
                /\ l.id \notin SeqIds(list_nodes(file, "ok").nodes)
                /\ list_nodes(file, "ok").nodes # << >>

\* C13 as stated (no double delete): over any interleaving of ticks and
\* interactive deletes, stop_node is never sent for an instance that is
\* terminated already -- leaving aside the instance whose earlier delete
\* lost the terminate answer or failed at the store removal.
C13_NoStopOfTerminated ==
    [][\A p \in Procs :
            (/\ proc[p].pc = "d_stop" /\ proc'[p].pc # "d_stop"
             /\ remote[proc[p].node.provider_id] = "terminated") =>
                hist[proc[p].node.provider_id] \in {"stop_failed", "remove_failed"}]_vars

\* the operations that save
Mutating == {"add_node", "remove_node", "add_cluster", "remove_cluster"}

\* process p has returned Ok from an operation that saves
Saved(p) == proc[p].pc = "done" /\ proc[p].res = "ok" /\ proc[p].cmd \in Mutating

\* C14: two processes racing a load-modify-save cycle can lose one's
\* write.  Nothing makes a load wait for the save of another process; what
\* an operation saves is the snapshot it loaded with its own change and
\* nothing else; so when two operations have both returned Ok, the file
\* holds what one of them saved, whether or not that one had loaded the
\* other's change.
C14_LastSaveWins ==
    /\ \A p \in Procs : proc[p].pc = "s_load" => ENABLED StoreLoad(p)
    /\ \A p \in Procs :
            (proc[p].pc \in {"s_save", "s_write"} \/ Saved(p)) =>
                LET was == SeqIds(load(proc[p].pre, "ok").st.nodes)
                IN  SeqIds(proc[p].st.nodes) =
                        IF proc[p].cmd = "add_node" THEN was \cup {proc[p].id}
                        ELSE IF proc[p].cmd = "remove_node" THEN was \ {proc[p].id}
                        ELSE was
    /\ (Saved("cli") /\ Saved("sub") /\ file.valid) =>
            Persisted \in {proc["cli"].st, proc["sub"].st}

\* two add_node calls with distinct ids have both returned Ok and the file
\* holds only the node of one of them
C14_Witness ==
    /\ Saved("cli") /\ Saved("sub")
    /\ proc["cli"].cmd = "add_node" /\ proc["sub"].cmd = "add_node"
    /\ proc["cli"].id # proc["sub"].id
    /\ file.valid
    /\ StoreIds = {proc["sub"].id}

\* C15 as stated: save replaces the snapshot atomically: at any point of a
\* save by process p, a load by another process succeeds and returns the
\* whole snapshot p loaded or the whole snapshot p is saving, never an
\* empty or partly written one.
C15_SaveIsAtomic ==
    \A p \in Procs :
        proc[p].pc = "s_write" =>
            /\ load(file, "ok").ok
            /\ load(file, "ok").st \in {load(proc[p].pre, "ok").st, proc[p].st}

\* the collection an operation works on, in the file f
CollectionOf(op, f) == IF op \in NodeOps THEN f.nodes ELSE f.clusters

\* the file the operation of process p found holds an entry with its id
IdPresent(p) ==
    /\ proc[p].pre.exists /\ proc[p].pre.valid
    /\ \E k \in 1 .. Len(CollectionOf(proc[p].cmd, proc[p].pre)) :
            CollectionOf(proc[p].cmd, proc[p].pre)[k].id = proc[p].id

\* C16: add_node with an id that is in the node collection fails, with the
\* duplicate error whenever the file could be read, without a save, and the
\* file, the existing entry included, is as it was; the same for
\* add_cluster and the cluster collection.
C16_DuplicateRefused ==
    LET me == proc["cli"]
    IN  (me.cmd \in {"add_node", "add_cluster"} /\ me.pc # "s_load" /\ IdPresent("cli")) =>
            /\ me.pc = "done" /\ me.res = "err"
            /\ me.why \in {"duplicate", "dir", "read"}
            /\ file = me.pre
            /\ \A rio \in ReadIO, wio \in WriteIO :
                    (IF me.cmd = "add_node" THEN add_node(me.pre, me.node, rio, wio)
                     ELSE add_cluster(me.pre, me.node, rio, wio)) = [ok |-> FALSE, file |-> me.pre]

\* add_node has been refused for an id that is in the file with another
\* timeout, next to a second node
C16_Witness ==
    LET me == proc["cli"]
    IN  /\ me.cmd = "add_node" /\ me.pc = "done" /\ me.why = "duplicate"
        /\ Len(file.nodes) = 2
        /\ Find(Persisted.nodes, me.id, NoNode).timeout # me.node.timeout
        /\ file = me.pre

\* C17: remove_node with an id that is not in the node collection fails,
\* with the not-found error whenever the file could be read, and the file
\* is as it was, so that the same call fails the same way again; the same
\* for remove_cluster and the cluster collection.
C17_RemoveAbsentFails ==
    LET me == proc["cli"]
    IN  (/\ me.cmd \in {"remove_node", "remove_cluster"} /\ me.pc # "s_load"
         /\ me.pre.valid /\ ~IdPresent("cli")) =>
            /\ me.pc = "done" /\ me.res = "err"
            /\ me.why \in {"not_found", "dir", "read"}
            /\ file = me.pre
            /\ \A rio \in ReadIO, wio \in WriteIO :
                    (IF me.cmd = "remove_node" THEN remove_node(file, me.id, rio, wio)
                     ELSE remove_cluster(file, me.id, rio, wio)) = [ok |-> FALSE, file |-> me.pre]

\* remove_node has failed for an id that is not in the file, which holds
\* another node and is as it was
C17_Witness ==
    LET me == proc["cli"]
    IN  /\ me.cmd = "remove_node" /\ me.pc = "done" /\ me.why = "not_found"
        /\ Len(file.nodes) = 1 /\ me.id \notin StoreIds
        /\ file = me.pre

\* C18: save then load round-trips.  When an operation has saved the
\* collection C and returned Ok, and nothing else has written the file, a
\* load of the file succeeds and returns C: the same entries, field for
\* field and in the same order, an absent timeout read back as absent.
C18_SaveLoadRoundTrip ==
    LET me == proc["cli"]
    IN  Saved("cli") =>
            /\ file.exists /\ file.valid
            /\ load(file, "ok") = [ok |-> TRUE, st |-> me.st]
            /\ from_str(to_string_pretty(me.st)) = me.st
            /\ \A k \in 1..Len(me.st.clusters) :
                    load(file, "ok").st.clusters[k].timeout.some = me.st.clusters[k].timeout.some

\* a collection of two nodes, one of them with a timeout, and a cluster
\* without one has been saved and is loaded back
C18_Witness ==
    LET me == proc["cli"]
    IN  /\ Saved("cli")
        /\ Len(me.st.nodes) = 2 /\ Len(me.st.clusters) = 1
        /\ me.st.clusters[1].timeout = None
        /\ me.st.nodes[1].timeout.some /\ ~me.st.nodes[2].timeout.some
        /\ me.st.nodes[1].id > me.st.nodes[2].id
        /\ load(file, "ok").st = me.st

\* a read of the store by the interactive process that found no file
FirstRunRead ==
    LET me == proc["cli"]
    IN  me.cmd \in {"get_node", "list_nodes"} /\ me.pc = "done" /\ me.pre = NoFile

UniqueIds(s) == \A j, k \in 1..Len(s) : s[j].id = s[k].id => j = k

\* C20: starting from an empty store, whatever add_node, remove_node,
\* add_cluster and remove_cluster calls one process makes, no two nodes of
\* the store have the same id and no two clusters have; the two kinds of
\* id do not meet: a cluster whose id is not that of a cluster is added
\* whether or not a node has that id, and a node likewise.
C20_IdsUniquePerCollection ==
    LET me == proc["cli"]
    IN  /\ UniqueIds(Persisted.nodes) /\ UniqueIds(Persisted.clusters)
        /\ me.pc \in {"s_save", "s_write"} => UniqueIds(me.st.nodes) /\ UniqueIds(me.st.clusters)
        /\ file.valid =>
            /\ \A id \in ClusterIds, t \in ClusterTimeouts :
                    (\A k \in 1..Len(Persisted.clusters) : Persisted.clusters[k].id # id) =>
                        add_cluster(file, NewEntry("add_cluster", id, t), "ok", "ok").ok
            /\ \A id \in InstanceIds, t \in ClusterTimeouts :
                    (\A k \in 1..Len(Persisted.nodes) : Persisted.nodes[k].id # id) =>
                        add_node(file, NewEntry("add_node", id, t), "ok", "ok").ok

\* the store holds two nodes and a cluster whose id is that of one of the
\* nodes, the cluster added after that node
C20_Witness ==
    LET me == proc["cli"]
    IN  /\ Saved("cli") /\ me.cmd = "add_cluster" /\ me.res = "ok"
        /\ Len(me.pre.nodes) = 2 /\ Len(Persisted.nodes) = 2 /\ Len(Persisted.clusters) = 1
        /\ \E k \in 1..2 : Persisted.nodes[k].id = Persisted.clusters[1].id

\* the interactive create has returned Ok
Created == proc["cli"].cmd = "create" /\ proc["cli"].pc = "done" /\ proc["cli"].res = "ok"

\* what get_node returns for the node the create made
CreatedNode == get_node(file, proc["cli"].inst, "ok").node

\* C21 as stated: after a successful create with duration d, get_node
\* returns an entity whose timeout_at is its created_at + d; after one with
\* no duration, timeout_at is absent.
C21_TimeoutIsCreatedAtPlusDuration ==
    LET me == proc["cli"]
    IN  Created =>
            CreatedNode.timeout = IF me.dur >= 0
                                  THEN Some(to_rfc3339(parse_from_rfc3339(CreatedNode.created_at).t + me.dur))
                                  ELSE None

\* C21, amended: after a successful create with duration d, get_node
\* returns an entity whose timeout_at is t + d, where t is the clock as the
\* command read it before it called add_node; created_at is read by
\* add_node, not earlier than t, so timeout_at is at most created_at + d.
\* After a successful create whose duration does not parse, timeout_at is
\* absent.
C21_TimeoutIsClockPlusDuration ==
    LET me == proc["cli"]
        made == parse_from_rfc3339(CreatedNode.created_at)
    IN  Created =>
            /\ get_node(file, me.inst, "ok").found
            /\ made.ok /\ me.t0 <= made.t /\ made.t <= now
            /\ me.dur >= 0 =>
                    /\ CreatedNode.timeout = Some(to_rfc3339(me.t0 + me.dur))
                    /\ parse_from_rfc3339(CreatedNode.timeout.str).t <= made.t + me.dur
            /\ me.dur < 0 => CreatedNode.timeout = None

\* a create with a duration of one unit has returned Ok, the clock read
\* once: the node's timeout_at is its created_at plus one
C21_Witness ==
    LET me == proc["cli"]
    IN  /\ Created /\ me.dur = 1
        /\ CreatedNode.created_at = to_rfc3339(me.t0)
        /\ CreatedNode.timeout = Some(to_rfc3339(me.t0 + 1))

\* C22: in every store state, every node whose timeout_at is present has
\* it strictly later than its own created_at, after a create with any
\* duration that is accepted, a zero duration included.
C22_TimeoutAfterCreatedAt ==
    \A k \in 1 .. Len(Persisted.nodes) :
        LET e == Persisted.nodes[k]
        IN  e.timeout.some =>
                parse_from_rfc3339(e.timeout.str).t > parse_from_rfc3339(e.created_at).t

\* C23: an entity is immutable except for timeout_at.  No step of a create
\* or a delete of another node, of a timeout reset or remove, or of a gmld
\* tick changes the id, address, provider, instance type, user or
\* created_at of a node that is in the store before the step and after it.
C23_OnlyTimeoutChanges ==
    [][\A j \in 1 .. Len(Persisted.nodes), k \in 1 .. Len(Persisted'.nodes) :
            Persisted.nodes[j].id = Persisted'.nodes[k].id =>
                [Persisted'.nodes[k] EXCEPT !.timeout = Persisted.nodes[j].timeout] = Persisted.nodes[j]]_vars

\* a timeout reset has given a node made at time 0 an expiry no create at
\* that time gives, while the store holds a second node
C23_Witness ==
    LET me == proc["cli"]
    IN  /\ me.cmd = "timeout_reset" /\ me.pc = "done" /\ me.res = "ok"
        /\ Len(Persisted.nodes) = 2
        /\ \E k \in 1 .. 2 :
                /\ Persisted.nodes[k].id = me.id
                /\ Persisted.nodes[k].created_at = to_rfc3339(0)
                /\ Persisted.nodes[k].timeout = Some(to_rfc3339(MaxTime + MaxDur))

\* process p runs a delete of an id that no node of the store had when the
\* delete began
DeleteOfAbsent(p) ==
    /\ proc[p].cmd = "delete"
    /\ proc[p].pre.valid
    /\ \A k \in 1 .. Len(proc[p].pre.nodes) : proc[p].pre.nodes[k].id # proc[p].id

\* C24: delete(id) for an id that is not in the store fails with the
\* not-found error (with the read error when the store cannot be read); it
\* never gets to the configuration and the provider handle, calls neither
\* stop_node nor remove_node, and leaves the store as it was.
C24_DeleteAbsentNotFound ==
    \A p \in Procs :
        DeleteOfAbsent(p) =>
            /\ proc[p].pc \in {"d_get", "done"}
            /\ proc[p].calls = << >>
            /\ file = proc[p].pre
            /\ proc[p].pc = "done" =>
                    /\ proc[p].res = "err"
                    /\ proc[p].why \in {"not_found", "store_read"}
                    /\ proc[p].why = "store_read" => ~file.exists \/ ~get_node(file, proc[p].id, "ok").found
            /\ get_node(file, proc[p].id, "ok") = [ok |-> TRUE, found |-> FALSE, node |-> NoNode]

\* a delete of an id the store does not hold has failed with not-found,
\* the store holding another node
C24_Witness ==
    LET me == proc["cli"]
    IN  /\ DeleteOfAbsent("cli") /\ me.pc = "done" /\ me.why = "not_found"
        /\ Len(file.nodes) = 1
        /\ remote[me.id] = "running"
        /\ stopCalls[me.id] = 0

\* process p is past the provider resolution of a create or a delete
PastResolution(p) ==
    \/ /\ proc[p].cmd = "create"
       /\ proc[p].pc \notin {"c_ensure", "c_config"}
       /\ proc[p].why # "daemon"
    \/ /\ proc[p].cmd = "delete"
       /\ proc[p].pc \notin {"d_get", "d_config"}
       /\ proc[p].why \notin {"store_read", "not_found"}

\* the provider name the command of process p resolves
ResolvedName(p) == IF proc[p].cmd = "create" THEN proc[p].provider ELSE proc[p].node.provider

\* C25: provider resolution comes before any remote call.  A create whose
\* provider is not in the configuration or not implemented, or whose
\* api key, ssh key or region is absent (or whose configuration cannot be
\* read), fails with the configuration error after no launch request and
\* no store write; a delete of a node whose provider cannot be resolved
\* fails the same way after no stop_node call.  A command that goes on
\* has resolved its provider.
C25_ResolutionBeforeRemoteCall ==
    \A p \in Procs :
        LET me == proc[p]
            complete == /\ ResolvedName(p) = "lambda"
                        /\ me.cfg.readable /\ me.cfg.present["lambda"]
                        /\ me.cfg.api_key /\ me.cfg.ssh_key /\ me.cfg.region
        IN  /\ me.calls # << >> => PastResolution(p)
            /\ PastResolution(p) =>
                    IF complete
                    THEN me.why # "config"
                    ELSE /\ me.pc = "done" /\ me.res = "err" /\ me.why = "config"
                         /\ me.calls = << >>
                         /\ file = me.pre
                         /\ me.cmd = "create" => me.inst = 0

\* a create has failed at the provider resolution because the region is
\* not set, with nothing launched and nothing stored
C25_Witness ==
    LET me == proc["cli"]
    IN  /\ me.cmd = "create" /\ me.pc = "done" /\ me.why = "config"
        /\ me.provider = "lambda" /\ ~me.cfg.region /\ me.cfg.api_key /\ me.cfg.ssh_key
        /\ me.calls = << >> /\ file = me.pre
        /\ \A i \in InstanceIds : remote[i] = "none"

\* C26: the daemon runs for ever.  Once gmld has started it never stops;
\* every tick, whatever it met (a store that cannot be loaded, a delete
\* that failed, nothing expired), comes to the sleep at the bottom of the
\* loop, and the sleep is followed by the top of the loop, where the next
\* tick starts.
C26_DaemonRunsForever ==
    /\ [][daemon.pc # "down" => daemon'.pc # "down"]_vars
    /\ [](daemon.pc = "end" => ENABLED DaemonSleep)
    /\ [](daemon.pc = "tick" /\ ~CliActive => ENABLED DaemonLoad)
    /\ DaemonActive ~> daemon.pc = "end"
    /\ daemon.pc = "end" ~> daemon.pc = "tick"

\* a tick in which a delete failed and another entry could not be parsed
\* has come to the sleep
C26_Witness ==
    /\ daemon.pc = "end"
    /\ \E k \in 1 .. Len(daemon.log) : daemon.log[k].outcome = "failed"
    /\ \E k \in 1 .. Len(daemon.log) : daemon.log[k].outcome = "parse_err"
    /\ ENABLED DaemonSleep

\* gml node types has returned a listing
Listed == proc["cli"].cmd = "node_types" /\ proc["cli"].pc = "done" /\ proc["cli"].res = "ok"

\* C27: get_node_types returns exactly the instance types of the
\* catalogue whose list of regions with available capacity is not empty:
\* a type whose list is empty, or absent, or not a list, is left out; a
\* type with a list of one region or more is kept, and its entry is as
\* the provider gave it; no type is added.
C27_OnlyTypesWithCapacity ==
    LET me == proc["cli"]
    IN  (Listed /\ me.body.data_is_map) =>
            /\ me.listing.data_is_map
            /\ \A n \in TypeNames :
                    LET e == me.body.data[n]
                        got == me.listing.data[n]
                    IN  /\ got.present <=>
                                (e.present /\ e.regions.has /\ e.regions.array /\ Len(e.regions.list) >= 1)
                        /\ got.present => got = e

\* the catalogue has a type with no region and a type with two regions,
\* and the listing holds the second alone, with its price
C27_Witness ==
    LET me == proc["cli"]
    IN  /\ Listed /\ me.body.data_is_map
        /\ me.body.data["gpu_1x"].present /\ me.body.data["gpu_1x"].regions.array
        /\ me.body.data["gpu_1x"].regions.list = << >>
        /\ me.body.data["gpu_8x"].regions.list = << "us-east-1", "us-west-1" >>
        /\ me.body.data["gpu_8x"].price = 2
        /\ ~me.listing.data["gpu_1x"].present
        /\ me.listing.data["gpu_8x"] = me.body.data["gpu_8x"]

LaunchesMade(l) == Cardinality({k \in 1 .. Len(l.calls) : l.calls[k] = "launch"})

\* C29: the orchestrator does not retry a remote call that failed.  One
\* create sends the launch request once at most and one delete sends the
\* terminate request once at most; a launch, a status request or a
\* terminate that fails ends the command with its error; the status
\* request of a create is the one request a command repeats.
C29_NoRetryOfRemoteCalls ==
    \A p \in Procs :
        LET me == proc[p]
        IN  /\ LaunchesMade(me) <= 1 /\ StopsMade(me) <= 1
            /\ me.cmd = "create" => StopsMade(me) = 0
            /\ me.cmd = "delete" => LaunchesMade(me) = 0 /\ me.polls = 0
            /\ me.polls >= 1 => LaunchesMade(me) = 1
            /\ me.pc = "c_launch" => LaunchesMade(me) = 0
            /\ me.resp.kind \in {"req_fail", "http_error", "bad_body"} =>
                    me.pc = "done" /\ me.res = "err"
            /\ Made(me, "stop_node:err") =>
                    me.pc = "done" /\ me.res = "err" /\ me.calls = << "stop_node:err" >>
            /\ (me.cmd = "create" /\ me.why \in StartFailures) =>
                    me.pc = "done" /\ me.res = "err" /\ me.calls = << "launch" >>

\* a create has returned Ok after one launch request and more than one
\* status request
C29_Witness ==
    LET me == proc["cli"]
    IN  /\ me.cmd = "create" /\ me.pc = "done" /\ me.res = "ok"
        /\ me.polls >= 3
        /\ me.calls = << "launch", "start_node:ok", "add_node" >>

TickPhase == IF daemon.pc \in {"nodes", "wait_node"} THEN 1 ELSE IF daemon.pc = "clusters" THEN 2 ELSE 3

\* C31: within a tick gmld makes its deletion attempts one after another:
\* all the nodes of the snapshot, in the order of the store, before any
\* cluster; an attempt is over before the next entity is looked at, so no
\* two are under way at once; and the store is loaded once per tick.  In
\* every step: the snapshot of a tick does not change, gmld goes from the
\* nodes to the clusters and never back, its position moves forward by one
\* entity at most, its record of the tick grows by one entity at most, it
\* stands still while a delete command runs, and it starts a delete
\* command only when none runs.
C31_AttemptsOneAfterAnother ==
    [][/\ (DaemonActive /\ DaemonActive') =>
            /\ daemon'.snap = daemon.snap
            /\ TickPhase' >= TickPhase
            /\ TickPhase' = TickPhase => daemon'.idx \in {daemon.idx, daemon.idx + 1}
            /\ \/ daemon'.log = daemon.log
               \/ /\ Len(daemon'.log) = Len(daemon.log) + 1
                  /\ SubSeq(daemon'.log, 1, Len(daemon.log)) = daemon.log
                  /\ daemon'.idx = daemon.idx + 1
                  /\ daemon'.log[Len(daemon'.log)].id =
                        (IF TickPhase = 1 THEN daemon.snap.nodes ELSE daemon.snap.clusters)[daemon.idx].id
       /\ (proc["sub"].pc # "idle" /\ proc'["sub"].pc # "idle") => daemon' = daemon
       /\ proc'["sub"].pc # "idle" =>
            /\ daemon'.pc = "wait_node"
            /\ proc'["sub"].id = daemon'.snap.nodes[daemon'.idx].id
       /\ (proc["sub"].pc = "idle" /\ proc'["sub"].pc # "idle") =>
            daemon.pc = "nodes" /\ proc'["sub"].pc = "d_get"
       /\ (proc["sub"].pc # "idle" /\ proc'["sub"].pc = "idle") =>
            proc["sub"].pc = "done" /\ daemon'.idx = daemon.idx + 1
    ]_vars

\* a tick is over in which the delete command was run for two nodes, one
\* after the other, and then a cluster was handled
C31_Witness ==
    /\ daemon.pc = "end"
    /\ Len(daemon.log) = 3
    /\ daemon.log[1].kind = "node" /\ daemon.log[1].outcome \in {"failed", "deleted"}
    /\ daemon.log[2].kind = "node" /\ daemon.log[2].outcome \in {"failed", "deleted"}
    /\ daemon.log[1].id = daemon.snap.nodes[1].id /\ daemon.log[2].id = daemon.snap.nodes[2].id
    /\ daemon.log[3].kind = "cluster"

\* the entry of the node with this id in the persisted snapshot
StoredNode(id) == get_node(file, id, "ok")

\* C32 as stated: whenever gmld invokes the delete command for a node, the
\* timeout_at the store holds for that node at that moment is present and
\* not in the future; a reset or a remove that completed after the
\* snapshot was loaded keeps the node from being deleted in that tick.
C32_DeleteSeesPersistedTimeout ==
    [][(proc["sub"].pc = "idle" /\ proc'["sub"].pc = "d_get" /\ StoredNode(proc'["sub"].id).found) =>
            LET t == StoredNode(proc'["sub"].id).node.timeout
            IN  /\ t.some
                /\ timeout_check(t.str, now) = "expired"
    ]_vars

\* process p has returned Ok from remove_node(id)
Removed(p, id) == Saved(p) /\ proc[p].cmd = "remove_node" /\ proc[p].id = id

\* the id comes into the persisted store in this step
Reappears(id) == id \notin StoreIds /\ id \in StoreIds'

\* process q ends a save in this step
EndsSave(q) == proc[q].pc = "s_write" /\ proc'[q].pc = "done"

\* C33 as stated: once remove_node has returned Ok for a node, no save of
\* another process brings the node back into the store (an add_node called
\* with that id again set aside).
C33_RemovedNeverReappears ==
    [][\A p \in Procs, id \in InstanceIds :
            (Removed(p, id) /\ Reappears(id)) =>
                \E q \in Procs : EndsSave(q) /\ proc[q].cmd = "add_node" /\ proc[q].id = id
    ]_vars

\* C33: the save of a remove_node that returns Ok leaves a store without
\* the node; the node comes back into the store only by a save of an
\* add_node called with its id, or by a save of another process that had
\* loaded the store while it held the node (a lost write: the snapshot
\* saved is the one loaded, with that process's own change).
C33_ReappearsOnlyByStaleSave ==
    [][/\ \A p \in Procs :
            (EndsSave(p) /\ proc[p].cmd = "remove_node" /\ proc'[p].res = "ok" /\ file'.valid) =>
                proc[p].id \notin StoreIds'
       /\ \A id \in InstanceIds :
            Reappears(id) =>
                \E q \in Procs :
                    /\ EndsSave(q)
                    /\ \/ proc[q].cmd = "add_node" /\ proc[q].id = id
                       \/ id \in SeqIds(proc[q].pre.nodes) /\ proc[q].id # id
    ]_vars

\* a node that one process removed with Ok is in the store again: the
\* other process, which had loaded the store with the node in it, has
\* saved its own change since
C33_Witness ==
    \E p, q \in Procs, id \in InstanceIds :
        /\ p # q
        /\ Removed(p, id)
        /\ Saved(q) /\ proc[q].id # id
        /\ id \in SeqIds(proc[q].pre.nodes)
        /\ file.valid /\ id \in StoreIds

\* C34: with several processes running add_node and remove_node at the
\* same time, each a load, a change and a save of the whole snapshot, with
\* no lock, every snapshot in the file has pairwise distinct node ids, and
\* so has every snapshot a process is about to save, whether or not a
\* write was lost on the way.
C34_IdsUniqueUnderRaces ==
    /\ UniqueIds(file.nodes)
    /\ UniqueIds(Persisted.nodes)
    /\ \A p \in Procs : proc[p].pc \in {"s_save", "s_write"} => UniqueIds(proc[p].st.nodes)

\* two processes have each added a node with the same id and both have
\* returned Ok, neither having seen the other's entry; the file holds the
\* id once
C34_Witness ==
    \E p, q \in Procs :
        /\ p # q
        /\ Saved(p) /\ Saved(q)
        /\ proc[p].cmd = "add_node" /\ proc[q].cmd = "add_node"
        /\ proc[p].id = proc[q].id
        /\ file.valid /\ Len(file.nodes) = 1 /\ StoreIds = {proc[p].id}

\* a timeout reset or a timeout remove runs in this step
TimeoutCommandRuns ==
    /\ proc["cli"].pc = "idle"
    /\ proc'["cli"].pc = "done"
    /\ proc'["cli"].cmd \in {"timeout_reset", "timeout_remove"}

\* C35: a timeout reset or a timeout remove of an id that no node of the
\* store has fails with the not-found error (with the read error when the
\* store cannot be read) and the store is as it was; a timeout reset whose
\* duration does not parse fails too, on a node that is in the store with
\* the duration error, before any write to the store, and the node keeps
\* the timeout_at it had.
C35_TimeoutCommandFailures ==
    [][TimeoutCommandRuns =>
        LET me == proc'["cli"]
            there == file.valid /\ me.id \in StoreIds
        IN  /\ (file.valid /\ me.id \notin StoreIds) =>
                    /\ me.res = "err" /\ me.why \in {"not_found", "store_read"}
                    /\ file' = file
            /\ (me.cmd = "timeout_reset" /\ me.dur = -1) =>
                    /\ me.res = "err" /\ me.why \in {"not_found", "store_read", "duration"}
                    /\ there => me.why \in {"duration", "store_read"}
                    /\ me.why = "duration" => there
                    /\ file' = file
                    /\ there => get_node(file', me.id, "ok").node.timeout = StoredNode(me.id).node.timeout
            /\ me.why \in {"not_found", "duration"} => file' = file
    ]_vars

\* a timeout reset with a duration that does not parse has failed on a node
\* that is in the store with a timeout, and the node has that timeout still
C35_Witness ==
    LET me == proc["cli"]
    IN  /\ me.cmd = "timeout_reset" /\ me.pc = "done" /\ me.dur = -1
        /\ me.res = "err" /\ me.why = "duration"
        /\ file = me.pre
        /\ StoredNode(me.id).found /\ StoredNode(me.id).node.timeout.some

\* gmld starts the delete command for a node in this step
DeleteCommandStarts == proc["sub"].pc = "idle" /\ proc'["sub"].pc = "d_get"

\* C36: a create whose timeout string is no duration does not fail for
\* that: no create ends with the duration error, and the add_node of such a
\* create, when it returns Ok, has stored the node with no timeout_at.
\* gmld starts the delete command only for nodes stored with a timeout_at,
\* and a node stored without one gets one only by a timeout reset of that
\* node; so no tick deletes the node before a reset.
C36_UnparsedTimeoutStoresNone ==
    [][/\ proc'["cli"].cmd = "create" => proc'["cli"].why # "duration"
       /\ (proc["cli"].pc = "c_add" /\ proc["cli"].dur = -1 /\ proc'["cli"].res = "ok") =>
            LET g == get_node(file', proc["cli"].inst, "ok")
            IN  g.found /\ ~g.node.timeout.some
       /\ DeleteCommandStarts =>
            /\ daemon.snap.nodes[daemon.idx].timeout.some
            /\ StoredNode(proc'["sub"].id).found => StoredNode(proc'["sub"].id).node.timeout.some
       /\ \A id \in InstanceIds :
            (/\ StoredNode(id).found /\ ~StoredNode(id).node.timeout.some
             /\ get_node(file', id, "ok").found /\ get_node(file', id, "ok").node.timeout.some) =>
                /\ TimeoutCommandRuns
                /\ proc'["cli"].cmd = "timeout_reset" /\ proc'["cli"].id = id
    ]_vars

\* a create with a timeout string that is no duration has returned Ok with
\* gmld running: the node is in the store with no timeout_at, beside a node
\* that has one
C36_Witness ==
    LET me == proc["cli"]
    IN  /\ me.cmd = "create" /\ me.pc = "done" /\ me.res = "ok" /\ me.dur = -1
        /\ daemon.pc = "tick"
        /\ StoredNode(me.inst).found /\ ~StoredNode(me.inst).node.timeout.some
        /\ \E id \in InstanceIds \ {me.inst} : StoredNode(id).found /\ StoredNode(id).node.timeout.some

\* the entry has a timeout that is no timestamp
Unparsed(e) == e.timeout.some /\ ~parse_from_rfc3339(e.timeout.str).ok

\* the clusters of the store whose timeout is no timestamp
UnparsedStored(st) == {st.clusters[k].id : k \in {j \in 1 .. Len(st.clusters) : Unparsed(st.clusters[j])}}

\* every attempt of the tick on an entity whose timeout is no timestamp has
\* ended with the parse error, and a tick that is over has made one on
\* every such cluster of its snapshot
ParseErrorsLogged ==
    /\ \A k \in 1 .. Len(daemon.log) :
            Unparsed(daemon.log[k]) => daemon.log[k].outcome = "parse_err"
    /\ daemon.pc = "end" =>
            \A id \in UnparsedStored(daemon.snap) :
                \E k \in 1 .. Len(daemon.log) :
                    /\ daemon.log[k].kind = "cluster" /\ daemon.log[k].id = id
                    /\ daemon.log[k].outcome = "parse_err"

\* gmld is at a cluster of its snapshot whose timeout is no timestamp
AtUnparsed ==
    /\ daemon.pc = "clusters"
    /\ daemon.idx <= Len(daemon.snap.clusters)
    /\ Unparsed(daemon.snap.clusters[daemon.idx])

\* C37: gmld never deletes an entity whose stored timeout is no timestamp.
\* Every attempt on one ends with the parse error; the step that makes the
\* attempt starts no delete command, leaves the store as it is and goes on
\* with the tick; a tick that is over has made that attempt, with that
\* error, on every such cluster of its snapshot, so the error comes again
\* in each tick that finds the cluster; and no step of gmld or of a delete
\* command it runs takes such a cluster out of the store (a save that
\* fails half-way leaves a file that holds no entity at all).
C37_UnparsedNeverDeleted ==
    [][/\ ParseErrorsLogged'
       /\ (AtUnparsed /\ daemon' # daemon) =>
            /\ daemon'.log = Append(daemon.log,
                    Logged("cluster", daemon.snap.clusters[daemon.idx], now, "parse_err"))
            /\ daemon'.pc = "clusters" /\ daemon'.idx = daemon.idx + 1
            /\ file' = file /\ proc' = proc /\ stopCalls' = stopCalls
       /\ ((daemon' # daemon \/ proc'["sub"] # proc["sub"]) /\ file.valid /\ file'.valid) =>
            UnparsedStored(Persisted) \subseteq UnparsedStored(Persisted')
    ]_vars

\* a tick made at the latest time is over: its attempt on a cluster whose
\* timeout is no timestamp ended with the parse error, after the delete
\* command had deleted an expired node, and the cluster is in the store
C37_Witness ==
    /\ daemon.pc = "end" /\ now = MaxTime
    /\ \E k \in 1 .. Len(daemon.log) :
            /\ daemon.log[k].kind = "cluster" /\ daemon.log[k].outcome = "parse_err"
            /\ daemon.log[k].at = MaxTime
            /\ daemon.log[k].id \in UnparsedStored(Persisted)
    /\ \E j \in 1 .. Len(daemon.log) : daemon.log[j].kind = "node" /\ daemon.log[j].outcome = "deleted"


\* get_node_ip: the sleeps made so far.  The loop sleeps at the end of an
\* iteration that found the instance not ready, `if attempt < MAX_RETRIES`,
\* and that is where the attempt number goes up by one.
Waits(l) == l.attempt - 1

\* the seconds get_node_ip has slept so far
WaitedSecs(l) == Waits(l) * RETRY_DELAY_SECS

\* the minutes the timeout error names: (MAX_RETRIES * RETRY_DELAY_SECS) / 60
NamedMinutes == (MAX_RETRIES * RETRY_DELAY_SECS) \div 60

\* C38 as stated: a start_node that ends in the readiness timeout has made
\* MAX_RETRIES status requests and slept RETRY_DELAY_SECS after each of
\* them: as many sleeps as requests, ten minutes in all, the ten minutes
\* the error names.
C38_TimeoutAfterTenMinutes ==
    LET me == proc["cli"]
    IN  (me.cmd = "create" /\ me.why = "timeout") =>
            /\ me.polls = MAX_RETRIES
            /\ Waits(me) = me.polls
            /\ WaitedSecs(me) = NamedMinutes * 60

\* C39: a create sends no launch request and writes nothing to the store
\* unless a gmld process runs, found running or started by this create.
\* When none runs and the executable is missing or does not start, the
\* create ends with that error having resolved no provider and made no call
\* to the provider or the store; a create that is past
\* ensure_daemon_running, or has ended for another reason, has gmld running.
C39_NoCreateWithoutDaemon ==
    LET me == proc["cli"]
    IN  me.cmd = "create" =>
            /\ (me.pc = "done" /\ me.why = "daemon") =>
                    /\ me.res = "err"
                    /\ me.calls = << >> /\ me.polls = 0 /\ me.inst = 0
                    /\ me.cfg = Idle.cfg
                    /\ file = me.pre
                    /\ \A i \in InstanceIds : remote[i] = "none"
            /\ (me.pc \notin {"c_ensure", "done"} \/ (me.pc = "done" /\ me.why # "daemon")) =>
                    daemon.pc # "down"
            /\ (LaunchesMade(me) > 0 \/ Made(me, "add_node")) => daemon.pc # "down"
            /\ (me.pc = "c_ensure" /\ daemon.pc = "down") => me.calls = << >> /\ file = me.pre

\* no gmld runs and the one a create tried to start did not start: the
\* create has ended with that error, and the store, which holds a cluster,
\* is as the create found it
C39_Witness ==
    LET me == proc["cli"]
    IN  /\ me.cmd = "create" /\ me.pc = "done" /\ me.res = "err" /\ me.why = "daemon"
        /\ daemon.pc = "down"
        /\ file = me.pre /\ Len(file.clusters) = 1
        /\ me.calls = << >>

====
